---- MODULE Spec2Model ----
(***************************************************************************)
(* Quizly attempt engine (quizly_app/api/views.py, quizly_app/models.py).  *)
(*                                                                         *)
(* The persistent store holds quizzes, questions, quiz attempts and the    *)
(* answers of each attempt.  Spec runs the request handlers one at a time, *)
(* each handler as one action.  ResumeSpec is Spec without forced starts.  *)
(* ConcSpec runs two request workers whose handlers interleave at the      *)
(* level of their SQL statements, under READ COMMITTED isolation: a        *)
(* statement reads the committed rows plus the rows its own transaction    *)
(* has written, and a row written by an open transaction is locked until   *)
(* that transaction commits.                                               *)
(***************************************************************************)
EXTENDS Integers, Sequences, FiniteSets, TLC

\* ------------------------------------------------------------- bounds
\* Number of QuizAttempt rows ever created (primary keys 1..MaxAttempts).
MaxAttempts == 2
\* Largest current_question_index a request carries.
MaxIndex == 1
\* Number of requests the two concurrent workers issue in ConcSpec.
MaxRequests == 3
\* Largest correct_count and total_questions score_percent is read with.
MaxCount == 16
\* Number of transcribe_audio calls one process serves.
MaxCalls == 3
\* Number of _call_gemini calls each thread of one process makes.
MaxThreadCalls == 2

\* Largest reading of the clock (timezone.now()); every attempt is created
\* once and completed at most once when the handlers are right.
MaxTime == 2 * MaxAttempts + 2

\* ------------------------------------------------------------- fixture
\* Two users, each owning one quiz; quiz 1 has two questions, quiz 2 one.
\* Quiz 3 and the questions from 4 on are the rows create_quiz_for_user adds.
Users == {1, 2}
QuizIds == {1, 2}
QuestionIds == {1, 2, 3}
\* The ids a request names: the stored ones and one that is not stored.
QuizInputs == {1, 2, 3}
QuestionInputs == {1, 2, 3, 4}
\* Quiz.user
QuizOwner(qz) == qz
\* Question.quiz
QuestionQuiz(q) == IF q = 3 THEN 2 ELSE IF q >= 4 THEN 3 ELSE 1
\* Question.question_options
QuestionOptions(q) == {"A", "B"}
\* Question.answer
QuestionAnswer(q) == IF q = 2 THEN "B" ELSE "A"
\* The selected_option values a request carries ("C" is no option).
OptionInputs == {"A", "B", "C"}
\* The absent current_question_index of a request.
NoIndex == << >>
IndexInputs == {NoIndex} \cup {<<i>> : i \in 1..MaxIndex}
\* completed_at = NULL
Null == << >>
\* StartAttemptView's fallback for a quiz without questions.
DefaultTotal == 10

AttemptIds == 1..MaxAttempts
Procs == {1, 2}

VARIABLES
    quizzes,      \* ids of the stored Quiz rows
    questions,    \* ids of the stored Question rows
    attempts,     \* committed QuizAttempt rows: id -> row
    answers,      \* committed AttemptAnswer rows
    nextId,       \* next QuizAttempt primary key
    now,          \* the clock
    resp,         \* the last response sent
    pc,           \* each worker's position in its handler
    req,          \* each worker's request
    mem,          \* each worker's in-memory QuizAttempt and prefetched rows
    pend,         \* ConcSpec: each worker's uncommitted AttemptAnswer write
    nreq,         \* ConcSpec: requests issued so far
    quizText,     \* user, title, description, video_url of each stored Quiz row
    gen,          \* a run of generate_quiz_from_transcript
    pipe,         \* a run of create_quiz_for_user
    ref,          \* a video reference and what it resolves to
    proc,         \* the server process: loaded speech models, cached client
    calc          \* an attempt's counters and the score computed from them

dbVars == <<quizzes, questions, attempts, answers, nextId, now>>
procVars == <<pc, req, mem, pend, nreq>>
restVars == <<quizText, gen, pipe, ref, proc, calc>>
vars == <<quizzes, questions, attempts, answers, nextId, now, resp,
          pc, req, mem, pend, nreq, quizText, gen, pipe, ref, proc, calc>>

\* ------------------------------------------------------------- rows
\* QuizAttempt.objects.create(...) of StartAttemptView.post
NewAttempt(u, qz, total, t) ==
    [user |-> u, quiz |-> qz, current_question_index |-> 0,
     is_completed |-> FALSE, correct_count |-> 0, total_questions |-> total,
     started_at |-> t, completed_at |-> Null]

\* A Quiz row: Quiz.objects.create(user, title, description, video_url)
QuizRow(u, title, description, video_url) ==
    [user |-> u, title |-> title, description |-> description,
     video_url |-> video_url]

\* An AttemptAnswer row.  The table is a set of rows; copy tells apart the
\* rows that agree on every column (rows differing in their primary key only).
AnswerRow(a, q, o, c, n) ==
    [attempt |-> a, question |-> q, selected_option |-> o, is_correct |-> c,
     copy |-> n]

\* The rows of the table with key (attempt, question).
RowsOf(rows, a, q) == {r \in rows : r.attempt = a /\ r.question = q}

\* quiz.questions.count()
QuestionCount(qs, qz) == Cardinality({q \in qs : QuestionQuiz(q) = qz})

\* Mutant of CorrectCount: the is_correct=True filter is left out.
CorrectCountUnfiltered(rows, a) ==
    Cardinality({r \in rows : r.attempt = a})

\* AttemptAnswer.objects.filter(attempt=attempt, is_correct=True).count()
CorrectCount(rows, a) ==
    Cardinality({r \in rows : r.attempt = a /\ r.is_correct})

\* _recalculate_attempt_score: the in-memory attempt with its counters
\* recomputed from the answer rows and the question rows the query sees.
recalculate_attempt_score(att, a, rows, qs) ==
    LET n == QuestionCount(qs, att.quiz)
    IN [att EXCEPT !.correct_count = CorrectCount(rows, a),
                   !.total_questions = IF n # 0 THEN n ELSE att.total_questions]

\* Mutant of mark_completed: the completion timestamp is not set.
mark_completed_flag_only(att, t) ==
    [att EXCEPT !.is_completed = TRUE]

\* QuizAttempt.mark_completed
mark_completed(att, t) ==
    [att EXCEPT !.is_completed = TRUE, !.completed_at = <<t>>]

\* Mutant of ShouldMark: the "not attempt.is_completed" test is left out.
ShouldMarkAlways(att, finish) == finish

\* "if finish and not attempt.is_completed" / "if not attempt.is_completed"
ShouldMark(att, finish) == finish /\ ~att.is_completed

\* Mutant of is_correct: every selected option counts as correct.
is_correct_always(selected_option, q) == TRUE

\* "is_correct = selected_option == question.answer"
is_correct(selected_option, q) == selected_option = QuestionAnswer(q)

\* Mutant of update_or_create: a row is added whatever the table holds.
create_always(rows, a, q, o, c) ==
    rows \cup {AnswerRow(a, q, o, c, 1 + Cardinality(RowsOf(rows, a, q)))}

\* AttemptAnswer.objects.update_or_create(attempt, question, defaults) on the
\* rows it sees: the row with that key is rewritten, or one row is added.
update_or_create(rows, a, q, o, c) ==
    (rows \ RowsOf(rows, a, q)) \cup {AnswerRow(a, q, o, c, 1)}

\* Mutant of OpenAttempts: the filter reads is_completed=True.
OpenAttemptsInverted(atts, u, qz) ==
    {a \in DOMAIN atts :
        atts[a].user = u /\ atts[a].quiz = qz /\ atts[a].is_completed}

\* QuizAttempt.objects.filter(user, quiz, is_completed=False)
OpenAttempts(atts, u, qz) ==
    {a \in DOMAIN atts :
        atts[a].user = u /\ atts[a].quiz = qz /\ ~atts[a].is_completed}

\* Mutant of ShouldResume: the "new" flag is not read.
ShouldResumeAlways(force, open) == open # {}

\* "if not force_new: existing = ...first(); if existing: return ..."
ShouldResume(force, open) == ~force /\ open # {}

\* Mutant of FirstOf: Meta.ordering = ["started_at"], the oldest first.
FirstOfAscending(atts, S) ==
    CHOOSE a \in S : \A b \in S : atts[a].started_at <= atts[b].started_at

\* .first() under Meta.ordering = ["-started_at"]
FirstOf(atts, S) ==
    CHOOSE a \in S : \A b \in S : atts[b].started_at <= atts[a].started_at

Response(op, status, id, detail) ==
    [op |-> op, status |-> status, id |-> id, detail |-> detail]

\* The id of a response that carries no attempt (an error response).
NoId == 0

\* ------------------------------------------------------------- lookups
\* get_object_or_404 + the owner check of _get_quiz_or_403: 200, 404 or 403
GetQuizStatus(qzs, qz, u) ==
    IF qz \notin qzs THEN 404
    ELSE IF QuizOwner(qz) # u THEN 403
    ELSE 200

\* Mutant of GetAttemptStatus: an attempt of another user answers 404.
GetAttemptStatusConflated(atts, a, u) ==
    IF a \notin DOMAIN atts \/ atts[a].user # u THEN 404 ELSE 200

\* get_object_or_404 + the owner check of _get_attempt_or_403
GetAttemptStatus(atts, a, u) ==
    IF a \notin DOMAIN atts THEN 404
    ELSE IF atts[a].user # u THEN 403
    ELSE 200

\* Mutant of ValidateAnswer: the question_options test is left out.
ValidateAnswerNoOptionCheck(att, qs, q, o) ==
    IF q \notin qs THEN [status |-> 404, detail |-> ""]
    ELSE IF QuestionQuiz(q) # att.quiz THEN [status |-> 400, detail |-> "question"]
    ELSE [status |-> 200, detail |-> ""]

\* The checks of SaveAnswerView.patch between loading the attempt and the
\* upsert: the question exists (404), belongs to the attempt's quiz (400)
\* and the selected option is one of its options (400).
ValidateAnswer(att, qs, q, o) ==
    IF q \notin qs THEN [status |-> 404, detail |-> ""]
    ELSE IF QuestionQuiz(q) # att.quiz THEN [status |-> 400, detail |-> "question"]
    ELSE IF o \notin QuestionOptions(q) THEN [status |-> 400, detail |-> "option"]
    ELSE [status |-> 200, detail |-> ""]

\* Mutant of SetIndex: the index of a completed attempt is left as it is.
SetIndexWhenOpen(att, idx) ==
    IF idx = NoIndex \/ att.is_completed THEN att
    ELSE [att EXCEPT !.current_question_index = idx[1]]

\* "if 'current_question_index' in payload.validated_data: ..."
SetIndex(att, idx) ==
    IF idx = NoIndex THEN att ELSE [att EXCEPT !.current_question_index = idx[1]]

\* Mutant of Completion: "attempt.is_completed = finish".
CompletionFollowsFlag(att, finish, t) ==
    IF finish THEN mark_completed(att, t)
    ELSE [att EXCEPT !.is_completed = FALSE, !.completed_at = Null]

\* "if finish and not attempt.is_completed: attempt.mark_completed()"
Completion(att, finish, t) ==
    IF ShouldMark(att, finish) THEN mark_completed(att, t) ELSE att

\* The clock after a handler that may have called timezone.now().
Tick(t, before, after) ==
    IF after.completed_at # before.completed_at THEN t + 1 ELSE t

\* ------------------------------------------------------------- text
\* A Python str is a sequence of one-character strings.
\* str.lstrip() / str.rstrip() / str.strip() for the blank " "
RECURSIVE LStrip(_)
LStrip(s) ==
    IF s = << >> THEN s
    ELSE IF Head(s) = " " THEN LStrip(Tail(s)) ELSE s

RECURSIVE RStrip(_)
RStrip(s) ==
    IF s = << >> THEN s
    ELSE IF s[Len(s)] = " " THEN RStrip(SubSeq(s, 1, Len(s) - 1)) ELSE s

strip(s) == RStrip(LStrip(s))

\* ------------------------------------------------------------- JSON data
\* What json.loads returns: a value is a record tagged with its Python type.
JStr(s) == [t |-> "str", s |-> s, items |-> << >>]
JNone == [t |-> "NoneType", s |-> << >>, items |-> << >>]
JInt(digits) == [t |-> "int", s |-> digits, items |-> << >>]
JList(items) == [t |-> "list", s |-> << >>, items |-> items]
\* The empty JSON object in the place of a text or a list.
JEmptyDict == [t |-> "dict", s |-> << >>, items |-> << >>]
\* A key the object does not have: dict.get(key, "") and dict.get(key).
Missing == [t |-> "missing", s |-> << >>, items |-> << >>]
\* A question object.
JQuestion(title, options, answer) ==
    [t |-> "dict", question_title |-> title, question_options |-> options,
     answer |-> answer]
\* The root object.
JQuiz(title, description, qlist) ==
    [title |-> title, description |-> description, questions |-> qlist]

\* str(data.get(key, "")): the text itself, "None" for null, the digits of a
\* number, "" for a key that is missing, "[]" and "{}" for the empty list
\* and the empty object.
PyStr(v) ==
    IF v.t = "str" THEN v.s
    ELSE IF v.t = "NoneType" THEN <<"N", "o", "n", "e">>
    ELSE IF v.t = "int" THEN v.s
    ELSE IF v.t = "missing" THEN << >>
    ELSE IF v.t = "list" THEN <<"[", "]">>
    ELSE <<"{", "}">>

\* ------------------------------------------------------------- schema
\* "if len(questions) != 10"
NumQuestions == 10
\* "len(options) != 4" and "len(set(cleaned_options)) != 4"
NumOptions == 4

NoDraft == [title |-> << >>, description |-> << >>, questions |-> << >>]
Ok(draft) == [ok |-> TRUE, error |-> "", idx |-> 0, draft |-> draft]
Err(msg, idx) == [ok |-> FALSE, error |-> msg, idx |-> idx, draft |-> NoDraft]

\* cleaned_options = [str(opt).strip() for opt in options]
CleanOptions(options) ==
    [i \in 1..Len(options.items) |-> strip(PyStr(options.items[i]))]

\* Mutant of QuestionError: the "options must be distinct" test is left out.
QuestionErrorNoDistinct(q) ==
    IF q.t # "dict" THEN "must be an object"
    ELSE IF strip(PyStr(q.question_title)) = << >> THEN "question_title is missing"
    ELSE IF q.question_options.t # "list" \/ Len(q.question_options.items) # NumOptions
         THEN "must have exactly 4 options"
    ELSE LET cleaned_options == CleanOptions(q.question_options)
             answer == strip(PyStr(q.answer))
         IN IF \E i \in 1..NumOptions : cleaned_options[i] = << >>
            THEN "empty option found"
            ELSE IF \A i \in 1..NumOptions : cleaned_options[i] # answer
            THEN "answer must be one of the options"
            ELSE ""

\* The body of validate_quiz_schema's loop for one question: the message of
\* the error it raises, "" when it raises none.
QuestionError(q) ==
    IF q.t # "dict" THEN "must be an object"
    ELSE IF strip(PyStr(q.question_title)) = << >> THEN "question_title is missing"
    ELSE IF q.question_options.t # "list" \/ Len(q.question_options.items) # NumOptions
         THEN "must have exactly 4 options"
    ELSE LET cleaned_options == CleanOptions(q.question_options)
             answer == strip(PyStr(q.answer))
         IN IF \E i \in 1..NumOptions : cleaned_options[i] = << >>
            THEN "empty option found"
            ELSE IF Cardinality({cleaned_options[i] : i \in 1..NumOptions}) # NumOptions
            THEN "options must be distinct"
            ELSE IF \A i \in 1..NumOptions : cleaned_options[i] # answer
            THEN "answer must be one of the options"
            ELSE ""

\* cleaned_questions.append({...})
CleanQuestion(q) ==
    [question_title |-> strip(PyStr(q.question_title)),
     question_options |-> CleanOptions(q.question_options),
     answer |-> strip(PyStr(q.answer))]

\* validate_quiz_schema: the normalized draft, or the first error raised.
validate_quiz_schema(data) ==
    LET title == strip(PyStr(data.title))
        description == strip(PyStr(data.description))
        qlist == data.questions
    IN IF title = << >> THEN Err("Quiz title is missing.", 0)
       ELSE IF description = << >> THEN Err("Quiz description is missing.", 0)
       ELSE IF qlist.t # "list" THEN Err("'questions' must be a list.", 0)
       ELSE IF Len(qlist.items) # NumQuestions
            THEN Err("AI must generate exactly 10 questions.", 0)
       ELSE LET bad == {i \in 1..NumQuestions : QuestionError(qlist.items[i]) # ""}
            IN IF bad # {}
               THEN LET idx == CHOOSE i \in bad : \A j \in bad : i <= j
                    IN Err(QuestionError(qlist.items[idx]), idx)
               ELSE Ok([title |-> title, description |-> description,
                        questions |-> [i \in 1..NumQuestions |->
                                          CleanQuestion(qlist.items[i])]])

\* ------------------------------------------------------------- drafts
\* The JSON objects the model's answers decode to.
Txt(c) == JStr(<<c>>)
GoodOptions == JList(<<Txt("a"), Txt("b"), Txt("c"), Txt("d")>>)
GoodQ == JQuestion(Txt("q"), GoodOptions, Txt("a"))
\* Questions padded with blanks: they are valid once trimmed.
PaddedQ ==
    JQuestion(JStr(<<" ", "q", " ">>),
              JList(<<JStr(<<" ", "a">>), JStr(<<"b", " ">>), Txt("c"), Txt("d")>>),
              JStr(<<" ", "a", " ">>))
\* Numbers as options and as answer: str() turns them into their digits.
NumberQ ==
    JQuestion(Txt("q"),
              JList(<<JInt(<<"1">>), JInt(<<"2">>), JInt(<<"3">>), JInt(<<"4">>)>>),
              JInt(<<"1">>))
\* Options that are distinct as written and equal once trimmed.
SameTrimmedQ ==
    JQuestion(Txt("q"), JList(<<Txt("a"), JStr(<<" ", "a">>), Txt("c"), Txt("d")>>), Txt("a"))
\* The number 1 and the text "1" as options.
SameAsNumberQ ==
    JQuestion(Txt("q"), JList(<<JInt(<<"1">>), Txt("1"), Txt("c"), Txt("d")>>), Txt("c"))
WrongAnswerQ == JQuestion(Txt("q"), GoodOptions, Txt("e"))

\* n questions, all GoodQ but the k-th, which is q.
Questions(n, k, q) == JList([i \in 1..n |-> IF i = k THEN q ELSE GoodQ])
QuizWith(k, q) == JQuiz(Txt("t"), Txt("d"), Questions(NumQuestions, k, q))

DraftPool ==
    << QuizWith(0, GoodQ),
       JQuiz(JStr(<<" ", "t", " ">>), JStr(<<"d", " ">>), Questions(NumQuestions, NumQuestions, PaddedQ)),
       QuizWith(1, NumberQ),
       JQuiz(JNone, Txt("d"), Questions(NumQuestions, 0, GoodQ)),
       JQuiz(Missing, Txt("d"), Questions(NumQuestions, 0, GoodQ)),
       JQuiz(Txt(" "), Txt("d"), Questions(NumQuestions, 0, GoodQ)),
       JQuiz(Txt("t"), Missing, Questions(NumQuestions, 0, GoodQ)),
       JQuiz(Txt("t"), Txt("d"), Missing),
       JQuiz(Txt("t"), Txt("d"), JEmptyDict),
       JQuiz(Txt("t"), Txt("d"), Questions(NumQuestions - 1, 0, GoodQ)),
       JQuiz(Txt("t"), Txt("d"), Questions(NumQuestions + 1, 0, GoodQ)),
       QuizWith(1, Txt("q")),
       QuizWith(NumQuestions, JQuestion(Txt(" "), GoodOptions, Txt("a"))),
       QuizWith(1, JQuestion(Txt("q"), Missing, Txt("a"))),
       QuizWith(2, JQuestion(Txt("q"), JList(<<Txt("a"), Txt("b"), Txt("c")>>), Txt("a"))),
       QuizWith(2, JQuestion(Txt("q"), JList(<<Txt("a"), Txt("b"), Txt("c"), Txt("d"), Txt("e")>>), Txt("a"))),
       QuizWith(3, JQuestion(Txt("q"), JList(<<Txt("a"), Txt(" "), Txt("c"), Txt("d")>>), Txt("a"))),
       QuizWith(NumQuestions, JQuestion(Txt("q"), JList(<<Txt("a"), Txt("a"), Txt("c"), Txt("d")>>), Txt("a"))),
       QuizWith(NumQuestions, SameTrimmedQ),
       QuizWith(1, SameAsNumberQ),
       QuizWith(NumQuestions, WrongAnswerQ),
       QuizWith(1, JQuestion(Txt("q"), GoodOptions, Missing)),
       QuizWith(1, JQuestion(Txt("q"), GoodOptions, JNone)),
       JQuiz(Txt("t"), Txt("d"),
             JList([i \in 1..NumQuestions |->
                      IF i = 3 THEN SameTrimmedQ ELSE IF i = 7 THEN WrongAnswerQ ELSE GoodQ])),
       JQuiz(Missing, Missing, Missing) >>

\* ------------------------------------------------------------- raw text
\* The text of an answer is a sequence of pieces: the blank " ", a word, a
\* code fence (three backquotes, written "fence"), the word "json", the braces and, by its place in
\* MemberNames, the text of the members of one JSON object of DraftPool.
MemberNames ==
    << "m1", "m2", "m3", "m4", "m5", "m6", "m7", "m8", "m9", "m10", "m11", "m12", "m13",
       "m14", "m15", "m16", "m17", "m18", "m19", "m20", "m21", "m22", "m23", "m24", "m25" >>

\* re.sub(r"^\s*fence(?:json)?\s*", "", cleaned): a leading fence, with the
\* word "json" when it follows, and the blanks after it are removed.
strip_fence_open(cleaned) ==
    IF cleaned # << >> /\ Head(cleaned) = "fence"
    THEN LET rest == Tail(cleaned)
         IN LStrip(IF rest # << >> /\ Head(rest) = "json" THEN Tail(rest) ELSE rest)
    ELSE cleaned

\* re.sub(r"\s*fence\s*$", "", cleaned): a trailing fence and the blanks
\* around it are removed.
strip_fence_close(cleaned) ==
    LET tail == RStrip(cleaned)
    IN IF tail # << >> /\ tail[Len(tail)] = "fence"
       THEN RStrip(SubSeq(tail, 1, Len(tail) - 1))
       ELSE cleaned

\* strip_markdown_fences
strip_markdown_fences(text) ==
    strip(strip_fence_close(strip_fence_open(strip(text))))

ParseErr(msg) == [ok |-> FALSE, error |-> msg, text |-> << >>]

\* extract_json_object after the fences are stripped: the slice from the
\* first "{" to the last "}"
slice_object(cleaned) ==
    LET opens == {i \in 1..Len(cleaned) : cleaned[i] = "{"}
        closes == {i \in 1..Len(cleaned) : cleaned[i] = "}"}
    IN IF opens = {} \/ closes = {} THEN ParseErr("No JSON object found in AI output.")
       ELSE LET start == CHOOSE i \in opens : \A j \in opens : i <= j
                end == CHOOSE i \in closes : \A j \in closes : j <= i
            IN IF end <= start THEN ParseErr("No JSON object found in AI output.")
               ELSE [ok |-> TRUE, error |-> "", text |-> strip(SubSeq(cleaned, start, end))]

\* extract_json_object
extract_json_object(text) == slice_object(strip_markdown_fences(text))

NoData == JQuiz(Missing, Missing, Missing)
Parsed(data) == [ok |-> TRUE, error |-> "", data |-> data]
Unparsed(msg) == [ok |-> FALSE, error |-> msg, data |-> NoData]

\* json.loads of a text that starts with "{" and ends with "}": blanks
\* between the pieces are skipped, "{}" is the empty object, "{" members "}"
\* the object with these members; anything else is a JSONDecodeError.
json_loads(text) ==
    LET core == SelectSeq(text, LAMBDA c : c # " ")
    IN IF core = <<"{", "}">> THEN Parsed(NoData)
       ELSE IF Len(core) = 3 /\ \E i \in 1..Len(MemberNames) : MemberNames[i] = core[2]
            THEN Parsed(DraftPool[CHOOSE i \in 1..Len(MemberNames) : MemberNames[i] = core[2]])
       ELSE Unparsed("AI output JSON is not parsable")

\* parse_ai_quiz_json from the extracted text on.  (A text that json.loads
\* accepts and that starts with "{" is an object: the "root must be a JSON
\* object" error cannot occur.)
loads_json_text(json_text) ==
    IF ~json_text.ok THEN Unparsed(json_text.error) ELSE json_loads(json_text.text)

\* parse_ai_quiz_json
parse_ai_quiz_json(raw_text) == loads_json_text(extract_json_object(raw_text))

\* ------------------------------------------------------------- generator
\* generate_quiz_from_transcript(transcript, max_attempts=3)
max_attempts == 3

\* What one client.models.generate_content call does: it answers with a
\* text, answers with no text (response.text is None), raises ClientError,
\* or raises another exception.  A ClientError carries the HTTP status in
\* its attribute code; status_code is the one-element sequence of the
\* attribute of that name, or the empty sequence when the exception has no
\* such attribute, as the ones google.genai raises.
TextResponse(text) == [kind |-> "text", status |-> 200, text |-> text]
NoTextResponse == [kind |-> "none", status |-> 200, text |-> << >>]
ClientError(code, status_code) ==
    [kind |-> "client_error", status |-> code, status_code |-> status_code,
     text |-> << >>]
OtherException == [kind |-> "exception", status |-> 0, text |-> << >>]

\* The texts of an answer around the members m.
Plain(m) == <<"{", m, "}">>
Fenced(m) == <<"fence", "json", " ", "{", " ", m, " ", "}", " ", "fence">>
InProse(m) == <<"word", " ", "{", m, "}", " ", "word">>

Responses ==
    [i \in 1..Len(MemberNames) |-> TextResponse(Plain(MemberNames[i]))]
    \o << TextResponse(Fenced("m1")),
          TextResponse(Fenced("m2")),
          TextResponse(Fenced("m10")),
          TextResponse(InProse("m1")),
          TextResponse(InProse("m19")),
          TextResponse(<< >>),
          TextResponse(<<" ">>),
          NoTextResponse,
          TextResponse(<<"word">>),
          TextResponse(<<"}", " ", "{">>),
          TextResponse(<<"{", "word", "}">>),
          TextResponse(<<"{", "}">>),
          TextResponse(<<"{", "m1", "}", " ", "{", "m1", "}">>),
          TextResponse(<<"fence", "{", "m1", "}", "fence">>),
          TextResponse(<<"fence", "json">>),
          ClientError(429, << >>),
          ClientError(400, << >>),
          ClientError(429, <<429>>),
          ClientError(403, <<403>>),
          OtherException >>

\* The transcripts generate_quiz_from_transcript is called with.
Transcripts == {<< >>, <<" ">>, <<"x">>, <<" ", "x", " ">>}

NoError == [msg |-> "", idx |-> 0, status |-> 0]
Error(msg, idx, status) == [msg |-> msg, idx |-> idx, status |-> status]

\* No run of the generator.
NoResponse == [kind |-> "pending", status |-> 0, text |-> << >>]

NoRun ==
    [phase |-> "idle", hasKey |-> TRUE, attempt |-> 0, response |-> NoResponse,
     data |-> NoData, calls |-> << >>, sleeps |-> 0, outcome |-> "none",
     result |-> NoDraft, error |-> NoError, last_error |-> NoError]

Raise(g, err) ==
    [g EXCEPT !.phase = "done", !.outcome = "raised", !.error = err, !.data = NoData]

Return(g, draft) ==
    [g EXCEPT !.phase = "done", !.outcome = "returned", !.result = draft, !.data = NoData]

\* build_quiz_prompt and the entry of the loop: an empty transcript raises
\* before the first attempt.  hasKey: GEMINI_API_KEY is set.
StartRun(transcript, hasKey) ==
    IF strip(transcript) = << >>
    THEN Raise([NoRun EXCEPT !.hasKey = hasKey], Error("Transcript is empty.", 0, 0))
    ELSE [NoRun EXCEPT !.hasKey = hasKey, !.phase = "generate", !.attempt = 1]

\* _call_gemini: without the key _get_client raises and no call is made;
\* the text of the answer is (response.text or "").strip()
call_gemini(hasKey, r) ==
    IF ~hasKey THEN [kind |-> "no_key", status |-> 0, text |-> << >>]
    ELSE IF r.kind = "text" THEN TextResponse(strip(r.text))
    ELSE IF r.kind = "none" THEN TextResponse(<< >>)
    ELSE r

\* The model calls made so far: the kind of each call and its attempt.
LogCall(g, kind) ==
    IF g.hasKey
    THEN [g EXCEPT !.calls = Append(@, [kind |-> kind, attempt |-> g.attempt])]
    ELSE g

\* Mutant of ShouldRetry: "if attempt <= max_attempts".
ShouldRetryOnceMore(attempt) == attempt <= max_attempts

\* "if attempt < max_attempts"
ShouldRetry(attempt) == attempt < max_attempts

\* "except QuizlyValidationError": sleep and continue, or re-raise.
OnValidationError(g, err) ==
    IF ShouldRetry(g.attempt)
    THEN [g EXCEPT !.phase = "generate", !.attempt = @ + 1, !.sleeps = @ + 1,
                   !.last_error = err, !.data = NoData]
    ELSE Raise([g EXCEPT !.last_error = err], err)

\* str(status_code) inside the f-string: "None" or the digits.
StatusText(status_code) ==
    IF status_code = << >> THEN "None" ELSE ToString(status_code[1])

\* The QuizlyValidationError "except ClientError" raises, from
\* status_code = getattr(exc, "status_code", None).
ClientErrorRaised(status_code) ==
    IF status_code = <<429>>
    THEN Error("Gemini quota/rate limit exceeded (HTTP 429). Try again later.", 0, 429)
    ELSE Error("Gemini request failed (HTTP " \o StatusText(status_code) \o ").", 0,
               IF status_code = << >> THEN 0 ELSE status_code[1])

\* Mutant of OnClientError: a ClientError is retried like a validation error.
OnClientErrorRetried(g, exc) ==
    OnValidationError(g, ClientErrorRaised(exc.status_code))

\* "except ClientError"
OnClientError(g, exc) ==
    Raise([g EXCEPT !.last_error = ClientErrorRaised(exc.status_code)],
          ClientErrorRaised(exc.status_code))

\* "except Exception"
OnException(g) ==
    LET err == Error("Unexpected error while calling Gemini.", 0, 0)
    IN Raise([g EXCEPT !.last_error = err], err)

\* What a call that did not answer with a text does to the run.
OnFailedCall(g, c) ==
    IF c.kind = "no_key" THEN OnValidationError(g, Error("GEMINI_API_KEY is missing.", 0, 0))
    ELSE IF c.kind = "client_error" THEN OnClientError(g, c)
    ELSE OnException(g)

\* Mutant of AfterRepairValidate: a repaired answer that fails the schema is
\* repaired again.
AfterRepairValidateAgain(g, data, v) ==
    IF v.ok THEN Return(g, v.draft)
    ELSE [g EXCEPT !.phase = "repair", !.data = data]

\* Line 108: "return validate_quiz_schema(fixed_data)"; its error is the
\* attempt's error.
AfterRepairValidate(g, data, v) ==
    IF v.ok THEN Return(g, v.draft)
    ELSE OnValidationError(g, Error(v.error, v.idx, 0))

\* Line 107: "fixed_data = parse_ai_quiz_json(fixed_raw)"
AfterRepairParse(g, p) ==
    IF ~p.ok THEN OnValidationError(g, Error(p.error, 0, 0))
    ELSE AfterRepairValidate(g, p.data, validate_quiz_schema(p.data))

\* Lines 107-108: the repaired answer is parsed and validated.
AfterRepair(g, c) == AfterRepairParse(g, parse_ai_quiz_json(c.text))

\* Lines 102-105: a valid first answer is returned, a schema error leads to
\* the repair call.
AfterGenerateValidate(g, data, v) ==
    IF v.ok THEN Return(g, v.draft)
    ELSE [g EXCEPT !.phase = "repair", !.data = data]

\* Line 100: "data = parse_ai_quiz_json(raw_text)"
AfterGenerateParse(g, p) ==
    IF ~p.ok THEN OnValidationError(g, Error(p.error, 0, 0))
    ELSE AfterGenerateValidate(g, p.data, validate_quiz_schema(p.data))

\* Lines 97-105: the first answer of an attempt is checked for emptiness,
\* parsed and validated.
AfterGenerate(g, c) ==
    IF c.text = << >> THEN OnValidationError(g, Error("Gemini returned empty output.", 0, 0))
    ELSE AfterGenerateParse(g, parse_ai_quiz_json(c.text))

\* Line 96: "raw_text = _call_gemini(base_prompt, model=model)" answered by r.
GenerateCall(r) ==
    /\ gen.phase = "generate"
    /\ gen' = [LogCall(gen, "generate") EXCEPT
                  !.phase = "generated", !.response = call_gemini(gen.hasKey, r)]
    /\ UNCHANGED <<dbVars, resp, procVars, proc, calc, quizText, pipe, ref>>

\* Lines 97-105 and the except clauses: what the attempt does with the
\* outcome of its first call, up to the next call or the end of the run.
HandleGenerate ==
    /\ gen.phase = "generated"
    /\ gen' = [(IF gen.response.kind = "text"
                THEN AfterGenerate(gen, gen.response)
                ELSE OnFailedCall(gen, gen.response)) EXCEPT !.response = NoResponse]
    /\ UNCHANGED <<dbVars, resp, procVars, proc, calc, quizText, pipe, ref>>

\* Line 106: "fixed_raw = _call_gemini(fixed_prompt, model=model)" answered by r.
RepairCall(r) ==
    /\ gen.phase = "repair"
    /\ gen' = [LogCall(gen, "repair") EXCEPT
                  !.phase = "repaired", !.response = call_gemini(gen.hasKey, r)]
    /\ UNCHANGED <<dbVars, resp, procVars, proc, calc, quizText, pipe, ref>>

\* Lines 107-108 and the except clauses: what the attempt does with the
\* outcome of its repair call.
HandleRepair ==
    /\ gen.phase = "repaired"
    /\ gen' = [(IF gen.response.kind = "text"
                THEN AfterRepair(gen, gen.response)
                ELSE OnFailedCall(gen, gen.response)) EXCEPT !.response = NoResponse]
    /\ UNCHANGED <<dbVars, resp, procVars, proc, calc, quizText, pipe, ref>>

\* ------------------------------------------------------------- video reference
\* A URL is a Python str cut into pieces: the characters of a video id are
\* one piece each, every other piece ("https://", "youtube.com", "/",
\* "watch", "?", ...) stands for the characters it spells.

\* The smallest index of a piece of toks in s, 0 when there is none.
find(s, toks) ==
    IF \E i \in 1..Len(s) : s[i] \in toks
    THEN CHOOSE i \in 1..Len(s) : s[i] \in toks /\ \A j \in 1..(i - 1) : s[j] \notin toks
    ELSE 0

\* s up to the first piece of toks (all of s when there is none), and s
\* after it (nothing when there is none): str.split(sep, 1)[0] and [1].
before(s, toks) ==
    IF find(s, toks) = 0 THEN s ELSE SubSeq(s, 1, find(s, toks) - 1)
after(s, toks) ==
    IF find(s, toks) = 0 THEN << >> ELSE SubSeq(s, find(s, toks) + 1, Len(s))
\* s from the first piece of toks on.
from(s, toks) ==
    IF find(s, toks) = 0 THEN << >> ELSE SubSeq(s, find(s, toks), Len(s))

\* str.startswith
startswith(s, prefix) ==
    Len(s) >= Len(prefix) /\ SubSeq(s, 1, Len(prefix)) = prefix

\* path.strip("/")
RECURSIVE LStripSlash(_)
LStripSlash(s) ==
    IF s = << >> THEN s
    ELSE IF Head(s) = "/" THEN LStripSlash(Tail(s)) ELSE s

RECURSIVE RStripSlash(_)
RStripSlash(s) ==
    IF s = << >> THEN s
    ELSE IF s[Len(s)] = "/" THEN RStripSlash(SubSeq(s, 1, Len(s) - 1)) ELSE s

strip_slash(s) == RStripSlash(LStripSlash(s))

\* str.lower on a piece
lower(piece) ==
    IF piece = "YOUTUBE.COM" THEN "youtube.com"
    ELSE IF piece = "WWW." THEN "www."
    ELSE IF piece = "YOUTU.BE" THEN "youtu.be"
    ELSE piece

\* urlsplit's network location: what follows the two slashes is the host up
\* to the first of / ? #; then the fragment starts at the first #, the
\* query at the first ?.
url_parts(rest) ==
    [hostname |-> [i \in 1..Len(before(rest, {"/", "?", "#"})) |->
                      lower(before(rest, {"/", "?", "#"})[i])],
     path |-> before(before(from(rest, {"/", "?", "#"}), {"#"}), {"?"}),
     query |-> after(before(from(rest, {"/", "?", "#"}), {"#"}), {"?"})]

\* urllib.parse.urlparse: the scheme is cut off, 'if url[:2] == "//"' the
\* network location follows, with or without a scheme before it; else
\* there is no host and the text up to the query is the path.
urlparse(url) ==
    IF url # << >> /\ Head(url) \in {"https://", "http://"}
    THEN url_parts(Tail(url))
    ELSE IF startswith(url, <<"/", "/">>)
    THEN url_parts(SubSeq(url, 3, Len(url)))
    ELSE [hostname |-> << >>,
          path |-> before(before(url, {"#"}), {"?"}),
          query |-> after(before(url, {"#"}), {"?"})]

\* The fields of a query string: str.split("&")
RECURSIVE split_amp(_)
split_amp(s) ==
    IF find(s, {"&"}) = 0 THEN <<s>>
    ELSE <<before(s, {"&"})>> \o split_amp(after(s, {"&"}))

\* A field name=value whose name is v and whose value is not blank.
IsVField(f) ==
    /\ find(f, {"="}) # 0
    /\ before(f, {"="}) = <<"v">>
    /\ after(f, {"="}) # << >>

\* parse_qs(query).get("v"): the values of the fields named v, blank values
\* dropped; qs["v"][0] is the first of them.
qs_v(query) ==
    IF SelectSeq(split_amp(query), IsVField) = << >> THEN << >>
    ELSE after(SelectSeq(split_amp(query), IsVField)[1], {"="})

\* "youtube.com" in host
Contains(host, piece) == \E i \in 1..Len(host) : host[i] = piece

\* The characters of [A-Za-z0-9_-] the ids are written with.
IdChars == {"a", "b", "c", "d", "e", "f", "g", "h", "i", "j", "k", "Z", "9", "_", "-"}
\* The length _YOUTUBE_ID_RE asks for.
IdLength == 11

\* _YOUTUBE_ID_RE.match(video_id)
YOUTUBE_ID_RE(video_id) ==
    Len(video_id) = IdLength /\ \A i \in 1..Len(video_id) : video_id[i] \in IdChars

\* The v parameter, else the rest of a shorts/ path, else of an embed/ path,
\* on a youtube.com host.
youtube_com_id(path, query) ==
    LET v1 == strip(qs_v(query))
        v2 == IF v1 = << >> /\ startswith(path, <<"shorts", "/">>)
              THEN strip(after(path, {"/"})) ELSE v1
    IN IF v2 = << >> /\ startswith(path, <<"embed", "/">>)
       THEN strip(after(path, {"/"})) ELSE v2

\* Mutant of video_id_of: youtu.be links are not read.
video_id_of_youtube_com_only(host, path, query) ==
    IF Contains(host, "youtube.com") THEN youtube_com_id(path, query) ELSE << >>

\* The video_id extract_youtube_video_id computes before it validates it.
video_id_of(host, path, query) ==
    LET v == IF Contains(host, "youtube.com") THEN youtube_com_id(path, query)
             ELSE << >>
    IN IF v = << >> /\ Contains(host, "youtu.be") /\ path # << >>
       THEN strip(before(path, {"/"}))
       ELSE v

Resolved(video_id) == [ok |-> TRUE, value |-> video_id, msg |-> ""]
Unresolved(msg) == [ok |-> FALSE, value |-> << >>, msg |-> msg]

\* Mutant of checked_id: any token that is not empty is returned.
checked_id_any(video_id) ==
    IF video_id = << >>
    THEN Unresolved("Could not extract a valid YouTube video ID.")
    ELSE Resolved(video_id)

\* The last test of extract_youtube_video_id.
checked_id(video_id) ==
    IF video_id = << >> \/ ~YOUTUBE_ID_RE(video_id)
    THEN Unresolved("Could not extract a valid YouTube video ID.")
    ELSE Resolved(video_id)

parsed_id(parsed) ==
    checked_id(video_id_of(parsed.hostname, strip_slash(parsed.path), parsed.query))

\* The values that are no str: None and a number.
NotStr == {<<"None">>, <<"int">>}

\* extract_youtube_video_id: "if not url or not isinstance(url, str)"
extract_youtube_video_id(url) ==
    IF url = << >> \/ url \in NotStr THEN Unresolved("URL is missing or invalid.")
    ELSE parsed_id(urlparse(strip(url)))

\* Mutant of canonical_youtube_url: the URL is built in the /v/ form.
canonical_youtube_url_v(video_id) ==
    IF video_id = << >> \/ ~YOUTUBE_ID_RE(video_id)
    THEN Unresolved("Invalid video ID.")
    ELSE Resolved(<<"https://", "www.", "youtube.com", "/", "v", "/">> \o video_id)

\* canonical_youtube_url
canonical_youtube_url(video_id) ==
    IF video_id = << >> \/ ~YOUTUBE_ID_RE(video_id)
    THEN Unresolved("Invalid video ID.")
    ELSE Resolved(<<"https://", "www.", "youtube.com", "/", "watch", "?", "v", "=">>
                  \o video_id)

\* The ids of the references: two that _YOUTUBE_ID_RE accepts and four it
\* does not (10 characters, 12 characters, a character outside the class,
\* no character).
ValidIds ==
    {<<"a", "b", "c", "d", "e", "f", "g", "h", "i", "j", "k">>,
     <<"-", "_", "9", "Z", "a", "b", "c", "d", "e", "f", "g">>}
RefIds ==
    ValidIds \cup
    {<<"a", "b", "c", "d", "e", "f", "g", "h", "i", "j">>,
     <<"a", "b", "c", "d", "e", "f", "g", "h", "i", "j", "k", "a">>,
     <<"a", "b", "c", "d", "e", "!", "g", "h", "i", "j", "k">>,
     << >>}

\* The hosts of the youtube.com references.
Hosts ==
    {<<"www.", "youtube.com">>, <<"youtube.com">>, <<"m.", "youtube.com">>,
     <<"WWW.", "YOUTUBE.COM">>}

\* The four shapes of a reference to id.
WatchUrl(host, id) == <<"https://">> \o host \o <<"/", "watch", "?", "v", "=">> \o id
ShortUrl(id) == <<"https://", "youtu.be", "/">> \o id
ShortsUrl(host, id) == <<"https://">> \o host \o <<"/", "shorts", "/">> \o id
EmbedUrl(host, id) == <<"https://">> \o host \o <<"/", "embed", "/">> \o id

\* The plain references to id, one per shape and host.
PlainUrls(id) ==
    {ShortUrl(id)} \cup
    UNION {{WatchUrl(h, id), ShortsUrl(h, id), EmbedUrl(h, id)} : h \in Hosts}

\* The reference u without its scheme name: "//" and the rest.
SchemeRelative(u) == <<"/", "/">> \o Tail(u)

\* The same references with blanks around them, with further parameters or
\* a fragment after them, with a trailing slash, without the scheme name.
DressedUrls(id) ==
    {<<" ">> \o u \o <<" ">> : u \in PlainUrls(id)}
    \cup {WatchUrl(h, id) \o <<"&", "t", "=", "1">> : h \in Hosts}
    \cup {<<"https://">> \o h \o <<"/", "watch", "?", "t", "=", "1", "&", "v", "=">> \o id
            : h \in Hosts}
    \cup {u \o <<"/">> : u \in {ShortUrl(id), ShortsUrl(<<"www.", "youtube.com">>, id),
                                EmbedUrl(<<"www.", "youtube.com">>, id)}}
    \cup {u \o <<"?", "si", "=", "x">> : u \in {ShortUrl(id),
                                EmbedUrl(<<"www.", "youtube.com">>, id)}}
    \cup {ShortUrl(id) \o <<"#", "t">>}
    \cup {SchemeRelative(u) : u \in PlainUrls(id)}
    \cup {<<" ">> \o SchemeRelative(ShortUrl(id)) \o <<" ">>}

\* References that are no reference to a video: no scheme, another host,
\* another path, a path below the id, no v parameter, no text.
OtherUrls(id) ==
    {<<"www.", "youtube.com", "/", "watch", "?", "v", "=">> \o id,
     WatchUrl(<<"example.com">>, id),
     SchemeRelative(WatchUrl(<<"example.com">>, id)),
     <<"/">> \o Tail(ShortUrl(id)),
     <<"https://", "www.", "youtube.com", "/", "v", "/">> \o id,
     ShortsUrl(<<"www.", "youtube.com">>, id) \o <<"/", "x">>,
     <<"https://", "youtu.be", "/", "shorts", "/">> \o id,
     <<"https://", "www.", "youtube.com", "/", "watch", "?", "v", "=", "&", "t", "=">> \o id,
     <<"https://", "www.", "youtube.com", "/", "watch">>,
     << >>, <<" ">>}

UrlPool ==
    NotStr \cup
    UNION {PlainUrls(id) \cup DressedUrls(id) \cup OtherUrls(id) : id \in RefIds}

\* No video reference.
NoRef == [phase |-> "none", url |-> << >>, video_id |-> Unresolved(""),
          video_url |-> Unresolved(""),
          again |-> [video_id |-> Unresolved(""), video_url |-> Unresolved("")]]

\* "video_id = extract_youtube_video_id(url)"
ExtractId(url) ==
    /\ ref.phase = "none"
    /\ ref' = [ref EXCEPT !.phase = "extracted", !.url = url,
                          !.video_id = extract_youtube_video_id(url)]
    /\ UNCHANGED <<dbVars, resp, procVars, proc, calc, quizText, gen, pipe>>

\* "video_url = canonical_youtube_url(video_id)", reached when
\* extract_youtube_video_id did not raise.
CanonicalUrl ==
    /\ ref.phase = "extracted"
    /\ ref.video_id.ok
    /\ ref' = [ref EXCEPT !.phase = "canonical",
                          !.video_url = canonical_youtube_url(ref.video_id.value)]
    /\ UNCHANGED <<dbVars, resp, procVars, proc, calc, quizText, gen, pipe>>

\* ------------------------------------------------------------- quiz creation
\* create_quiz_for_user, stage by stage.  The rows written inside
\* transaction.atomic() are pending until the block is left; quizzes,
\* questions and quizText hold the committed rows, which is what every
\* other request reads.

\* The stages in the order of the calls of create_quiz_for_user.
Stages == <<"resolve", "download", "transcribe", "generate", "persist">>

\* The primary keys of the rows create_quiz_for_user adds.
NewQuizId == 3
NewQuestionIds == 4..(3 + NumQuestions)

NoTx == [quiz |-> << >>, questions |-> {}]
NoObserver == [step |-> "idle", user |-> 0, quizzes |-> {}]

\* No run of create_quiz_for_user.
NoPipe ==
    [stage |-> "idle", user |-> 0, video_url |-> << >>, audio_path |-> "",
     file |-> "none", content |-> "none", transcript |-> << >>,
     quiz_data |-> NoDraft, tx |-> NoTx, log |-> << >>, failed |-> "",
     error |-> "", outcome |-> "none", obs |-> NoObserver]

\* A stage is called.
Invoke(p, stage) == [p EXCEPT !.log = Append(@, stage)]

\* A stage raises outside the try block: the run ends.
RaiseOut(p, stage, msg) ==
    [p EXCEPT !.stage = "done", !.failed = stage, !.error = msg,
              !.outcome = "raised"]

\* A stage raises inside the try block: the finally clause runs next.
RaiseInTry(p, stage, msg) ==
    [p EXCEPT !.stage = "finally", !.failed = stage, !.error = msg, !.tx = NoTx]

\* "video_id = extract_youtube_video_id(url);
\*  video_url = canonical_youtube_url(video_id)"
resolve_url(url) ==
    IF extract_youtube_video_id(url).ok
    THEN canonical_youtube_url(extract_youtube_video_id(url).value)
    ELSE extract_youtube_video_id(url)

\* The references create_quiz_for_user is called with.
PipeUrls ==
    {<< >>,
     ShortUrl(<<"a", "b", "c", "d", "e", "f", "g", "h", "i", "j", "k">>),
     ShortUrl(<<"a", "b", "c", "d", "e", "f", "g", "h", "i", "j">>)}

\* create_quiz_for_user up to the download: "if not url: raise", then the
\* reference is resolved.
ResolveStage(u, url) ==
    /\ pipe.stage = "idle"
    /\ LET p == Invoke([pipe EXCEPT !.user = u], "resolve")
       IN pipe' = IF url = << >> THEN RaiseOut(p, "resolve", "url is required.")
                  ELSE IF ~resolve_url(url).ok
                  THEN RaiseOut(p, "resolve", resolve_url(url).msg)
                  ELSE [p EXCEPT !.stage = "resolved",
                                 !.video_url = resolve_url(url).value]
    /\ UNCHANGED <<dbVars, resp, procVars, proc, calc, quizText, gen, ref>>

\* What yt-dlp and the file system do in download_youtube_audio: the tool
\* raises, the tool leaves no output file, os.replace raises after mkstemp
\* has made the destination file, or the audio file is moved to its path.
DownloadOutcomes == {"ok", "tool_error", "no_file", "replace_error"}
\* What the downloaded file holds.
Contents == {"speech", "silence", "zero_bytes", "undecodable", "no_samples"}

\* download_youtube_audio(video_url)
download_youtube_audio(p, outcome, content) ==
    IF ~resolve_url(p.video_url).ok
    THEN RaiseOut(p, "download", resolve_url(p.video_url).msg)
    ELSE IF outcome = "tool_error"
    THEN RaiseOut(p, "download", "DownloadError")
    ELSE IF outcome = "no_file"
    THEN RaiseOut(p, "download", "Audio download failed: output file not found.")
    ELSE IF outcome = "replace_error"
    THEN RaiseOut([p EXCEPT !.file = "placeholder"], "download", "OSError")
    ELSE [p EXCEPT !.stage = "downloaded",
                   !.video_url = resolve_url(p.video_url).value,
                   !.audio_path = "audio", !.file = "exists",
                   !.content = content]

\* "download = download_youtube_audio(video_url)"
DownloadStage(outcome, content) ==
    /\ pipe.stage = "resolved"
    /\ pipe' = download_youtube_audio(Invoke(pipe, "download"), outcome, content)
    /\ UNCHANGED <<dbVars, resp, procVars, proc, calc, quizText, gen, ref>>

\* What whisper's model does: it transcribes, raises RuntimeError or raises
\* another exception.
WhisperOutcomes == {"ok", "RuntimeError", "Exception"}

Transcribed(text) == [ok |-> TRUE, text |-> text, msg |-> ""]
NotTranscribed(msg) == [ok |-> FALSE, text |-> << >>, msg |-> msg]

\* result.get("text") of the file's content
SpokenText(content) == IF content = "speech" THEN <<" ", "x", " ">> ELSE <<" ">>

\* Mutant of transcribe_audio: the model's RuntimeError is not caught.
transcribe_audio_uncaught(file, content, whisper) ==
    IF file # "exists" THEN NotTranscribed("Audio file not found. Please try again.")
    ELSE IF content = "zero_bytes"
    THEN NotTranscribed("Audio file is empty. Please try again.")
    ELSE IF content = "undecodable"
    THEN NotTranscribed("Audio could not be decoded.")
    ELSE IF content = "no_samples"
    THEN NotTranscribed("Audio is empty or unreadable.")
    ELSE IF whisper = "RuntimeError"
    THEN NotTranscribed("RuntimeError")
    ELSE IF whisper = "Exception"
    THEN NotTranscribed("Unexpected error while transcribing audio.")
    ELSE IF strip(SpokenText(content)) = << >>
    THEN NotTranscribed("Transcription result is empty.")
    ELSE Transcribed(strip(SpokenText(content)))

\* transcribe_audio(audio_path)
transcribe_audio(file, content, whisper) ==
    IF file # "exists" THEN NotTranscribed("Audio file not found. Please try again.")
    ELSE IF content = "zero_bytes"
    THEN NotTranscribed("Audio file is empty. Please try again.")
    ELSE IF content = "undecodable"
    THEN NotTranscribed("Audio could not be decoded.")
    ELSE IF content = "no_samples"
    THEN NotTranscribed("Audio is empty or unreadable.")
    ELSE IF whisper = "RuntimeError"
    THEN NotTranscribed("Whisper failed to transcribe the audio.")
    ELSE IF whisper = "Exception"
    THEN NotTranscribed("Unexpected error while transcribing audio.")
    ELSE IF strip(SpokenText(content)) = << >>
    THEN NotTranscribed("Transcription result is empty.")
    ELSE Transcribed(strip(SpokenText(content)))

\* Mutant of AfterTranscribe: a failed transcription is passed on.
AfterTranscribeContinue(p, r) ==
    [p EXCEPT !.stage = "transcribed", !.transcript = r.text,
              !.failed = IF r.ok THEN @ ELSE "transcribe"]

\* "transcript = transcribe_audio(...)": the text, or the error leaves the
\* try block.
AfterTranscribe(p, r) ==
    IF r.ok THEN [p EXCEPT !.stage = "transcribed", !.transcript = r.text]
    ELSE RaiseInTry(p, "transcribe", r.msg)

TranscribeStage(whisper) ==
    /\ pipe.stage = "downloaded"
    /\ pipe' = AfterTranscribe(Invoke(pipe, "transcribe"),
                               transcribe_audio(pipe.file, pipe.content, whisper))
    /\ UNCHANGED <<dbVars, resp, procVars, proc, calc, quizText, gen, ref>>

\* "quiz_data = generate_quiz_from_transcript(transcript)" is called.
GenerateStage(hasKey) ==
    /\ pipe.stage = "transcribed"
    /\ pipe' = [Invoke(pipe, "generate") EXCEPT !.stage = "generating"]
    /\ gen' = StartRun(pipe.transcript, hasKey)
    /\ UNCHANGED <<dbVars, resp, procVars, proc, calc, quizText, ref>>

\* generate_quiz_from_transcript returns the draft or raises.
GenerateReturns ==
    /\ pipe.stage = "generating"
    /\ gen.phase = "done"
    /\ pipe' = IF gen.outcome = "returned"
               THEN [pipe EXCEPT !.stage = "generated", !.quiz_data = gen.result]
               ELSE RaiseInTry(pipe, "generate", gen.error.msg)
    /\ UNCHANGED <<dbVars, resp, procVars, proc, calc, quizText, gen, ref>>

\* What a statement of the transaction does: it succeeds or the store
\* raises.
DbOutcomes == {"ok", "error"}

\* Mutant of InsertInTransaction: the row is committed by the statement.
InsertAutocommit(rows, new) == rows @@ new

\* The committed rows of a table after an INSERT inside transaction.atomic():
\* the new row is pending, the committed rows are as they were.
InsertInTransaction(rows, new) == rows

\* "with transaction.atomic(): quiz = Quiz.objects.create(...)"
CreateQuizRow(db) ==
    /\ pipe.stage = "generated"
    /\ LET p == Invoke(pipe, "persist")
           row == NewQuizId :> QuizRow(pipe.user, pipe.quiz_data.title,
                                      pipe.quiz_data.description, pipe.video_url)
       IN IF db = "ok"
          THEN /\ pipe' = [p EXCEPT !.stage = "quiz_created", !.tx.quiz = row]
               /\ quizText' = InsertInTransaction(quizText, row)
               /\ quizzes' = DOMAIN quizText'
          ELSE /\ pipe' = RaiseInTry(p, "persist", "DatabaseError")
               /\ UNCHANGED <<quizzes, quizText>>
    /\ UNCHANGED <<questions, attempts, answers, nextId, now, resp, procVars, proc, calc, gen, ref>>

\* "Question.objects.bulk_create([...])": one row per question of the
\* draft; on an error the block is left and the pending rows are dropped.
BulkCreateQuestions(db) ==
    /\ pipe.stage = "quiz_created"
    /\ pipe' = IF db = "ok"
               THEN [pipe EXCEPT !.stage = "questions_created",
                                 !.tx.questions =
                                    4..(3 + Len(pipe.quiz_data.questions))]
               ELSE RaiseInTry(pipe, "persist", "DatabaseError")
    /\ UNCHANGED <<dbVars, resp, procVars, proc, calc, quizText, gen, ref>>

\* The end of the transaction.atomic() block: the pending rows are committed
\* together, or the commit fails and none is.
CommitQuiz(db) ==
    /\ pipe.stage = "questions_created"
    /\ IF db = "ok"
       THEN /\ quizText' = quizText @@ pipe.tx.quiz
            /\ quizzes' = DOMAIN quizText'
            /\ questions' = questions \cup pipe.tx.questions
            /\ pipe' = [pipe EXCEPT !.stage = "finally", !.tx = NoTx]
       ELSE /\ pipe' = RaiseInTry(pipe, "persist", "DatabaseError")
            /\ UNCHANGED <<quizzes, questions, quizText>>
    /\ UNCHANGED <<attempts, answers, nextId, now, resp, procVars, proc, calc, gen, ref>>

\* What os.remove does: it removes the file or raises OSError.
RemoveOutcomes == {"ok", "OSError"}

\* The finally clause: "if download.audio_path and os.path.exists(...):
\* os.remove(...)", "except OSError: pass".  The file after it.
cleanup(audio_path, file, remove) ==
    IF audio_path # "" /\ file = "exists" /\ remove = "ok" THEN "removed" ELSE file

\* The finally clause, then "return quiz" or the pending error is raised.
Cleanup(remove) ==
    /\ pipe.stage = "finally"
    /\ pipe' = [pipe EXCEPT !.stage = "done",
                            !.file = cleanup(pipe.audio_path, pipe.file, remove),
                            !.outcome = IF pipe.failed = "" THEN "returned"
                                        ELSE "raised"]
    /\ UNCHANGED <<dbVars, resp, procVars, proc, calc, quizText, gen, ref>>

\* QuizListView.get, first query: Quiz.objects.filter(user=request.user)
ListQuizRows(u) ==
    /\ pipe.obs.step = "idle"
    /\ pipe' = [pipe EXCEPT !.obs = [step |-> "quizzes_read", user |-> u,
                 quizzes |-> {qz \in quizzes : quizText[qz].user = u}]]
    /\ UNCHANGED <<dbVars, resp, procVars, proc, calc, quizText, gen, ref>>

\* QuizListView.get, second query: prefetch_related("questions") reads the
\* questions of the quizzes read; the response tells whether one of them
\* came without questions.
ListQuestionRows ==
    /\ pipe.obs.step = "quizzes_read"
    /\ resp' = Response("list", 200, NoId,
                        IF \E qz \in pipe.obs.quizzes : QuestionCount(questions, qz) = 0
                        THEN "quiz without questions" ELSE "")
    /\ pipe' = [pipe EXCEPT !.obs = NoObserver]
    /\ UNCHANGED <<dbVars, procVars, proc, calc, quizText, gen, ref>>
\* ------------------------------------------------------------- score
\* A percentage with one decimal is the integer number of its tenths
\* (33.3 is 333).

\* n / d rounded to the nearest integer, a tie to the even one: round(x, 1)
\* of Python on the tenths of x.
RoundHalfEven(n, d) ==
    IF 2 * (n % d) < d THEN n \div d
    ELSE IF 2 * (n % d) > d THEN (n \div d) + 1
    ELSE IF (n \div d) % 2 = 0 THEN n \div d
    ELSE (n \div d) + 1

\* Mutant of score_percent: the quotient is cut, not rounded.
score_percent_cut(correct_count, total_questions) ==
    IF total_questions = 0 THEN 0
    ELSE (correct_count * 1000) \div total_questions

\* QuizAttempt.score_percent
score_percent(correct_count, total_questions) ==
    IF total_questions = 0 THEN 0
    ELSE RoundHalfEven(correct_count * 1000, total_questions)

\* No counters.
NoCalc == [correct_count |-> 0, total_questions |-> 0, percent |-> << >>]

\* attempt.score_percent is read.
ScorePercent ==
    /\ calc.percent = << >>
    /\ calc' = [calc EXCEPT !.percent =
                    <<score_percent(calc.correct_count, calc.total_questions)>>]
    /\ UNCHANGED <<dbVars, resp, procVars, quizText, gen, pipe, ref, proc>>

\* ------------------------------------------------------------- process
\* The threads of the process that call _call_gemini.
Threads == {1, 2}
\* The model sizes transcribe_audio is called with.
ModelNames == {"base", "small"}

\* No transcribe_audio call.
NoCall == [file |-> "none", content |-> "none", model_name |-> "",
           whisper |-> "", ops |-> << >>,
           result |-> [ok |-> FALSE, text |-> << >>, msg |-> ""]]

\* A thread outside _call_gemini, holding no client.
NoThread == [at |-> "idle", client |-> 0, calls |-> 0, error |-> ""]

\* The process at its start: no transcribe_audio call made, no speech model
\* loaded, _get_client's cache empty, no client created or used.
NoProc ==
    [calls |-> 0, loads |-> << >>, last |-> NoCall,
     cache |-> << >>, created |-> 0, used |-> {},
     th |-> [t \in Threads |-> NoThread]]

\* The calls transcribe_audio makes, in order, on a file: os.path.exists,
\* os.path.getsize, whisper.load_audio, whisper.load_model and
\* model.transcribe.
transcribe_ops(file, content) ==
    IF file # "exists" THEN <<"exists">>
    ELSE IF content = "zero_bytes" THEN <<"exists", "getsize">>
    ELSE IF content \in {"undecodable", "no_samples"}
    THEN <<"exists", "getsize", "load_audio">>
    ELSE <<"exists", "getsize", "load_audio", "load_model", "transcribe">>

\* One transcribe_audio(audio_path, model_name) call of the process;
\* whisper.load_model(model_name) is called in each call that reaches it.
TranscribeCall(file, content, model_name, whisper) ==
    /\ proc.calls < MaxCalls
    /\ proc' = [proc EXCEPT
                  !.calls = @ + 1,
                  !.loads = IF \E i \in 1..Len(transcribe_ops(file, content)) :
                                  transcribe_ops(file, content)[i] = "load_model"
                            THEN Append(@, model_name) ELSE @,
                  !.last = [file |-> file, content |-> content,
                            model_name |-> model_name, whisper |-> whisper,
                            ops |-> transcribe_ops(file, content),
                            result |-> transcribe_audio(file, content, whisper)]]
    /\ UNCHANGED <<dbVars, resp, procVars, calc, quizText, gen, pipe, ref>>

\* _call_gemini is entered and _get_client() looks its cache up: a hit
\* returns the cached client, a miss goes on to the wrapped function.
ClientLookup(t) ==
    /\ proc.th[t].at = "idle"
    /\ proc.th[t].calls < MaxThreadCalls
    /\ proc' = IF proc.cache # << >>
               THEN [proc EXCEPT !.th[t].at = "call", !.th[t].calls = @ + 1,
                                 !.th[t].client = proc.cache[1], !.th[t].error = ""]
               ELSE [proc EXCEPT !.th[t].at = "miss", !.th[t].calls = @ + 1,
                                 !.th[t].error = ""]
    /\ UNCHANGED <<dbVars, resp, procVars, calc, quizText, gen, pipe, ref>>

\* The body of _get_client after a miss: without GEMINI_API_KEY it raises
\* and nothing is cached, else genai.Client(api_key) makes a new client.
ClientCreate(t, hasKey) ==
    /\ proc.th[t].at = "miss"
    /\ proc' = IF ~hasKey
               THEN [proc EXCEPT !.th[t].at = "idle",
                                 !.th[t].error = "GEMINI_API_KEY is missing."]
               ELSE [proc EXCEPT !.created = @ + 1,
                                 !.th[t].client = proc.created + 1,
                                 !.th[t].at = "made"]
    /\ UNCHANGED <<dbVars, resp, procVars, calc, quizText, gen, pipe, ref>>

\* lru_cache after the wrapped function returned: the result is stored
\* unless the key was added during the call; the caller gets the result it
\* computed either way.
ClientStore(t) ==
    /\ proc.th[t].at = "made"
    /\ proc' = [proc EXCEPT !.cache = IF @ = << >> THEN <<proc.th[t].client>> ELSE @,
                            !.th[t].at = "call"]
    /\ UNCHANGED <<dbVars, resp, procVars, calc, quizText, gen, pipe, ref>>

\* "response = client.models.generate_content(...)"
ClientCall(t) ==
    /\ proc.th[t].at = "call"
    /\ proc' = [proc EXCEPT !.used = @ \cup {proc.th[t].client},
                            !.th[t].at = "idle", !.th[t].client = 0]
    /\ UNCHANGED <<dbVars, resp, procVars, calc, quizText, gen, pipe, ref>>

\* ------------------------------------------------------------- handlers
\* StartAttemptView.post
StartAttempt(u, qz, force) ==
    /\ UNCHANGED <<quizzes, questions, answers>>
    /\ UNCHANGED <<procVars, restVars>>
    /\ LET st == GetQuizStatus(quizzes, qz, u)
           open == OpenAttempts(attempts, u, qz)
           n == QuestionCount(questions, qz)
       IN IF st # 200 THEN
              /\ resp' = Response("start", st, NoId, "")
              /\ UNCHANGED <<attempts, nextId, now>>
          ELSE IF ShouldResume(force, open) THEN
              /\ resp' = Response("start", 200, FirstOf(attempts, open), "")
              /\ UNCHANGED <<attempts, nextId, now>>
          ELSE
              /\ nextId <= MaxAttempts
              /\ now < MaxTime
              /\ attempts' = attempts @@
                    (nextId :> NewAttempt(u, qz, IF n # 0 THEN n ELSE DefaultTotal, now))
              /\ nextId' = nextId + 1
              /\ now' = now + 1
              /\ resp' = Response("start", 201, nextId, "")

\* SaveAnswerView.patch, one transaction
SaveAnswer(u, a, q, o, idx, finish) ==
    /\ UNCHANGED <<quizzes, questions, nextId>>
    /\ UNCHANGED <<procVars, restVars>>
    /\ LET st == GetAttemptStatus(attempts, a, u)
       IN IF st # 200 THEN
              /\ resp' = Response("answer", st, NoId, "")
              /\ UNCHANGED <<attempts, answers, now>>
          ELSE
              LET v == ValidateAnswer(attempts[a], questions, q, o)
              IN IF v.status # 200 THEN
                     /\ resp' = Response("answer", v.status, NoId, v.detail)
                     /\ UNCHANGED <<attempts, answers, now>>
                 ELSE
                     LET rows == update_or_create(answers, a, q, o, is_correct(o, q))
                         att1 == SetIndex(attempts[a], idx)
                         att2 == recalculate_attempt_score(att1, a, rows, questions)
                         att3 == Completion(att2, finish, now)
                     IN /\ now < MaxTime
                        /\ answers' = rows
                        /\ attempts' = [attempts EXCEPT ![a] = att3]
                        /\ now' = Tick(now, att2, att3)
                        /\ resp' = Response("answer", 200, a, "")

\* FinishAttemptView.post, one transaction
FinishAttempt(u, a) ==
    /\ UNCHANGED <<quizzes, questions, answers, nextId>>
    /\ UNCHANGED <<procVars, restVars>>
    /\ LET st == GetAttemptStatus(attempts, a, u)
       IN IF st # 200 THEN
              /\ resp' = Response("finish", st, NoId, "")
              /\ UNCHANGED <<attempts, now>>
          ELSE
              LET att1 == recalculate_attempt_score(attempts[a], a, answers, questions)
                  att2 == Completion(att1, TRUE, now)
              IN /\ now < MaxTime
                 /\ attempts' = [attempts EXCEPT ![a] = att2]
                 /\ now' = Tick(now, att1, att2)
                 /\ resp' = Response("finish", 200, a, "")

\* AttemptResultView.get: save(update_fields=[correct_count, total_questions])
AttemptResult(u, a) ==
    /\ UNCHANGED <<quizzes, questions, answers, nextId, now>>
    /\ UNCHANGED <<procVars, restVars>>
    /\ LET st == GetAttemptStatus(attempts, a, u)
       IN IF st # 200 THEN
              /\ resp' = Response("result", st, NoId, "")
              /\ UNCHANGED attempts
          ELSE
              LET att1 == recalculate_attempt_score(attempts[a], a, answers, questions)
              IN /\ attempts' = [attempts EXCEPT
                        ![a].correct_count = att1.correct_count,
                        ![a].total_questions = att1.total_questions]
                 /\ resp' = Response("result", 200, a, "")

\* AttemptDetailView.get: the attempt with its answers is read and returned.
AttemptDetail(u, a) ==
    /\ UNCHANGED <<dbVars, procVars, restVars>>
    /\ LET st == GetAttemptStatus(attempts, a, u)
       IN resp' = Response("view", st, IF st = 200 THEN a ELSE NoId, "")

\* QuizDetailView.get
QuizDetail(u, qz) ==
    /\ UNCHANGED <<dbVars, procVars, restVars>>
    /\ resp' = Response("quiz", GetQuizStatus(quizzes, qz, u), NoId, "")

\* A field the PATCH body does not carry.
Absent == <<"absent">>
\* The PATCH bodies: no field, a blank title, an empty description, and a
\* title with a leading blank together with an empty description.
PatchInputs ==
    {[title |-> Absent, description |-> Absent],
     [title |-> <<" ">>, description |-> Absent],
     [title |-> Absent, description |-> << >>],
     [title |-> <<" ", "t">>, description |-> << >>]}

\* QuizPatchSerializer.is_valid: the fields are CharFields that trim their
\* value; title (CharField) may not be blank, description (blank=True) may.
PatchErrors(title, description) ==
    IF title # Absent /\ strip(title) = << >> THEN "title" ELSE ""

\* QuizPatchSerializer.save with partial=True: the fields carried are set.
PatchedText(text, title, description) ==
    [text EXCEPT !.title = IF title = Absent THEN @ ELSE strip(title),
                 !.description = IF description = Absent THEN @ ELSE strip(description)]

\* QuizDetailView.patch
QuizPatch(u, qz, title, description) ==
    /\ UNCHANGED <<dbVars, procVars, proc, calc, gen, pipe, ref>>
    /\ LET st == GetQuizStatus(quizzes, qz, u)
           err == PatchErrors(title, description)
       IN IF st # 200 THEN
              /\ resp' = Response("patch", st, NoId, "")
              /\ UNCHANGED quizText
          ELSE IF err # "" THEN
              /\ resp' = Response("patch", 400, NoId, err)
              /\ UNCHANGED quizText
          ELSE
              /\ quizText' = [quizText EXCEPT
                                ![qz] = PatchedText(quizText[qz], title, description)]
              /\ resp' = Response("patch", 200, NoId, "")

\* on_delete=CASCADE of QuizAttempt.quiz: the attempts that stay when quiz
\* qz is deleted.
Cascade(atts, qz) == {a \in DOMAIN atts : atts[a].quiz # qz}

\* QuizDetailView.delete: quiz.delete() removes the quiz and, by cascade,
\* its questions, its attempts and the answers of those attempts.
QuizDelete(u, qz) ==
    /\ UNCHANGED <<nextId, now, procVars, proc, calc, gen, pipe, ref>>
    /\ LET st == GetQuizStatus(quizzes, qz, u)
           kept == Cascade(attempts, qz)
       IN IF st # 200 THEN
              /\ resp' = Response("delete", st, NoId, "")
              /\ UNCHANGED <<quizzes, questions, attempts, answers, quizText>>
          ELSE
              /\ quizzes' = quizzes \ {qz}
              /\ questions' = {q \in questions : QuestionQuiz(q) # qz}
              /\ attempts' = [a \in kept |-> attempts[a]]
              /\ answers' = {r \in answers : r.attempt \in kept}
              /\ quizText' = [z \in quizzes \ {qz} |-> quizText[z]]
              /\ resp' = Response("delete", 204, NoId, "")

\* ------------------------------------------------------------- Spec
NoRequest == [op |-> "none"]
NoWrite == [kind |-> "none"]

\* The store after the fixture is loaded, no request in progress.
StoreInit ==
    /\ quizzes = QuizIds
    /\ questions = QuestionIds
    /\ attempts = << >>
    /\ answers = {}
    /\ nextId = 1
    /\ now = 1
    /\ resp = Response("none", 0, NoId, "")
    /\ pc = [p \in Procs |-> "idle"]
    /\ req = [p \in Procs |-> NoRequest]
    /\ mem = [p \in Procs |-> NoRequest]
    /\ pend = [p \in Procs |-> NoWrite]
    /\ nreq = 0
    /\ quizText = [qz \in QuizIds |-> QuizRow(QuizOwner(qz), <<"q">>, <<"d">>, << >>)]

Init ==
    /\ StoreInit
    /\ gen = NoRun
    /\ pipe = NoPipe
    /\ ref = NoRef
    /\ proc = NoProc
    /\ calc = NoCalc

Start == \E u \in Users, qz \in QuizInputs, force \in BOOLEAN : StartAttempt(u, qz, force)
Resume == \E u \in Users, qz \in QuizInputs : StartAttempt(u, qz, FALSE)
\* Every SaveAnswer(u, a, q, o, idx, finish) step.  A request stopped by the
\* attempt lookup ends the same way whatever its body, and one stopped by the
\* question checks whatever its option, index and flag: one request stands
\* for each such family.
Answer ==
    \E u \in Users, a \in AttemptIds :
        IF GetAttemptStatus(attempts, a, u) # 200
        THEN SaveAnswer(u, a, 1, "A", NoIndex, FALSE)
        ELSE \E q \in QuestionInputs :
                IF ValidateAnswer(attempts[a], questions, q, "A").status # 200
                THEN SaveAnswer(u, a, q, "A", NoIndex, FALSE)
                ELSE \E o \in OptionInputs, idx \in IndexInputs, finish \in BOOLEAN :
                        SaveAnswer(u, a, q, o, idx, finish)
Finish == \E u \in Users, a \in AttemptIds : FinishAttempt(u, a)
Result == \E u \in Users, a \in AttemptIds : AttemptResult(u, a)

Next == Start \/ Answer \/ Finish \/ Result
Spec == Init /\ [][Next]_vars

NextResume == Resume \/ Answer \/ Finish \/ Result
ResumeSpec == Init /\ [][NextResume]_vars

\* ------------------------------------------------------------- AccessSpec
\* The handlers of every route that names a quiz or an attempt, one request
\* at a time.  Answers carry option "A" and neither index nor finish flag.
View == \E u \in Users, a \in AttemptIds : AttemptDetail(u, a)
AccessAnswer ==
    \E u \in Users, a \in AttemptIds, q \in QuestionInputs :
        SaveAnswer(u, a, q, "A", NoIndex, FALSE)
ReadQuiz == \E u \in Users, qz \in QuizInputs : QuizDetail(u, qz)
PatchQuiz ==
    \E u \in Users, qz \in QuizInputs, body \in PatchInputs :
        QuizPatch(u, qz, body.title, body.description)
DeleteQuiz == \E u \in Users, qz \in QuizInputs : QuizDelete(u, qz)

AccessNext ==
    \/ Resume \/ View \/ AccessAnswer \/ Finish \/ Result
    \/ ReadQuiz \/ PatchQuiz \/ DeleteQuiz
AccessSpec == Init /\ [][AccessNext]_vars

\* ------------------------------------------------------------- ConcSpec
\* Two request workers.  SaveAnswerView.patch and FinishAttemptView.post run
\* in one transaction each (@transaction.atomic), StartAttemptView.post runs
\* statement by statement (autocommit).  attempts and answers hold the
\* committed rows; pend[p] is the AttemptAnswer row worker p has written and
\* not yet committed, mem[p] the QuizAttempt object it loaded.

SameKey(w, a, q) == w.kind # "none" /\ w.row.attempt = a /\ w.row.question = q

\* Mutant of UniqueWait: the table has no unique constraint.
UniqueWaitNone(p, a, q) == FALSE

\* UniqueConstraint(fields=["attempt", "question"]): an INSERT waits for an
\* open transaction that has inserted a row with the same key.
UniqueWait(p, a, q) ==
    \E o \in Procs \ {p} : pend[o].kind = "insert" /\ SameKey(pend[o], a, q)

\* update_or_create reads the row with select_for_update(): it waits for an
\* open transaction that has written that row.
RowLockWait(p, a, q) ==
    \E o \in Procs \ {p} : pend[o].kind = "update" /\ SameKey(pend[o], a, q)

\* The answers table with a transaction's own write applied: what its
\* queries see, and what its commit stores.
ApplyWrite(rows, w) ==
    IF w.kind = "none" THEN rows
    ELSE IF w.kind = "update"
         THEN update_or_create(rows, w.row.attempt, w.row.question,
                               w.row.selected_option, w.row.is_correct)
    ELSE rows \cup {[w.row EXCEPT !.copy =
                        Cardinality(RowsOf(rows, w.row.attempt, w.row.question)) + 1]}

\* StartAttemptView.post up to the "existing" query (never forced here).
BeginStart(p, u, qz) ==
    /\ pc[p] = "idle"
    /\ UNCHANGED restVars
    /\ nreq < MaxRequests
    /\ nreq' = nreq + 1
    /\ UNCHANGED <<dbVars, mem, pend>>
    /\ LET st == GetQuizStatus(quizzes, qz, u)
           open == OpenAttempts(attempts, u, qz)
       IN IF st # 200 THEN
              /\ resp' = Response("start", st, NoId, "")
              /\ UNCHANGED <<pc, req>>
          ELSE IF open # {} THEN
              /\ resp' = Response("start", 200, FirstOf(attempts, open), "")
              /\ UNCHANGED <<pc, req>>
          ELSE
              /\ pc' = [pc EXCEPT ![p] = "start_create"]
              /\ req' = [req EXCEPT ![p] = [op |-> "start", user |-> u, quiz |-> qz]]
              /\ UNCHANGED resp

\* StartAttemptView.post: QuizAttempt.objects.create(...)
CreateAttempt(p) ==
    /\ pc[p] = "start_create"
    /\ UNCHANGED restVars
    /\ nextId <= MaxAttempts
    /\ now < MaxTime
    /\ LET n == QuestionCount(questions, req[p].quiz)
       IN attempts' = attempts @@
             (nextId :> NewAttempt(req[p].user, req[p].quiz,
                                   IF n # 0 THEN n ELSE DefaultTotal, now))
    /\ nextId' = nextId + 1
    /\ now' = now + 1
    /\ resp' = Response("start", 201, nextId, "")
    /\ pc' = [pc EXCEPT ![p] = "idle"]
    /\ UNCHANGED <<quizzes, questions, answers, req, mem, pend, nreq>>

\* SaveAnswerView.patch up to the upsert: the attempt is loaded, the request
\* checked; a refused request ends here, having written nothing.
BeginAnswer(p, u, a, q, o, idx, finish) ==
    /\ pc[p] = "idle"
    /\ UNCHANGED restVars
    /\ nreq < MaxRequests
    /\ nreq' = nreq + 1
    /\ UNCHANGED <<dbVars, pend>>
    /\ LET st == GetAttemptStatus(attempts, a, u)
       IN IF st # 200 THEN
              /\ resp' = Response("answer", st, NoId, "")
              /\ UNCHANGED <<pc, req, mem>>
          ELSE
              LET v == ValidateAnswer(attempts[a], questions, q, o)
              IN IF v.status # 200 THEN
                     /\ resp' = Response("answer", v.status, NoId, v.detail)
                     /\ UNCHANGED <<pc, req, mem>>
                 ELSE
                     /\ pc' = [pc EXCEPT ![p] = "answer_upsert"]
                     /\ req' = [req EXCEPT ![p] =
                           [op |-> "answer", user |-> u, attempt |-> a, question |-> q,
                            selected_option |-> o, index |-> idx, finish |-> finish]]
                     /\ mem' = [mem EXCEPT ![p] = attempts[a]]
                     /\ UNCHANGED resp

\* SaveAnswerView.patch: AttemptAnswer.objects.update_or_create(...)
UpsertAnswer(p) ==
    /\ pc[p] = "answer_upsert"
    /\ UNCHANGED restVars
    /\ LET a == req[p].attempt
           q == req[p].question
           o == req[p].selected_option
           kind == IF RowsOf(answers, a, q) = {} THEN "insert" ELSE "update"
       IN /\ IF kind = "insert" THEN ~UniqueWait(p, a, q) ELSE ~RowLockWait(p, a, q)
          /\ pend' = [pend EXCEPT ![p] =
                [kind |-> kind, row |-> AnswerRow(a, q, o, is_correct(o, q), 1)]]
    /\ pc' = [pc EXCEPT ![p] = "answer_recalc"]
    /\ UNCHANGED <<dbVars, resp, req, mem, nreq>>

\* SaveAnswerView.patch: the progress pointer, _recalculate_attempt_score
\* and mark_completed on the loaded object.
RecalcAnswer(p) ==
    /\ pc[p] = "answer_recalc"
    /\ UNCHANGED restVars
    /\ now < MaxTime
    /\ LET a == req[p].attempt
           att1 == SetIndex(mem[p], req[p].index)
           att2 == recalculate_attempt_score(att1, a, ApplyWrite(answers, pend[p]), questions)
           att3 == Completion(att2, req[p].finish, now)
       IN /\ mem' = [mem EXCEPT ![p] = att3]
          /\ now' = Tick(now, att2, att3)
    /\ pc' = [pc EXCEPT ![p] = "answer_save"]
    /\ UNCHANGED <<quizzes, questions, attempts, answers, nextId, resp, req, pend, nreq>>

\* SaveAnswerView.patch: attempt.save() writes every column of the loaded
\* object, and the transaction commits.
CommitAnswer(p) ==
    /\ pc[p] = "answer_save"
    /\ UNCHANGED restVars
    /\ attempts' = [attempts EXCEPT ![req[p].attempt] = mem[p]]
    /\ answers' = ApplyWrite(answers, pend[p])
    /\ pend' = [pend EXCEPT ![p] = NoWrite]
    /\ resp' = Response("answer", 200, req[p].attempt, "")
    /\ pc' = [pc EXCEPT ![p] = "idle"]
    /\ UNCHANGED <<quizzes, questions, nextId, now, req, mem, nreq>>

\* FinishAttemptView.post: the attempt is loaded.
BeginFinish(p, u, a) ==
    /\ pc[p] = "idle"
    /\ UNCHANGED restVars
    /\ nreq < MaxRequests
    /\ nreq' = nreq + 1
    /\ UNCHANGED <<dbVars, pend>>
    /\ LET st == GetAttemptStatus(attempts, a, u)
       IN IF st # 200 THEN
              /\ resp' = Response("finish", st, NoId, "")
              /\ UNCHANGED <<pc, req, mem>>
          ELSE
              /\ pc' = [pc EXCEPT ![p] = "finish_recalc"]
              /\ req' = [req EXCEPT ![p] = [op |-> "finish", user |-> u, attempt |-> a]]
              /\ mem' = [mem EXCEPT ![p] = attempts[a]]
              /\ UNCHANGED resp

\* FinishAttemptView.post: _recalculate_attempt_score and mark_completed on
\* the loaded object.
RecalcFinish(p) ==
    /\ pc[p] = "finish_recalc"
    /\ UNCHANGED restVars
    /\ now < MaxTime
    /\ LET att1 == recalculate_attempt_score(mem[p], req[p].attempt, answers, questions)
           att2 == Completion(att1, TRUE, now)
       IN /\ mem' = [mem EXCEPT ![p] = att2]
          /\ now' = Tick(now, att1, att2)
    /\ pc' = [pc EXCEPT ![p] = "finish_save"]
    /\ UNCHANGED <<quizzes, questions, attempts, answers, nextId, resp, req, pend, nreq>>

\* FinishAttemptView.post: attempt.save() and the commit.
CommitFinish(p) ==
    /\ pc[p] = "finish_save"
    /\ UNCHANGED restVars
    /\ attempts' = [attempts EXCEPT ![req[p].attempt] = mem[p]]
    /\ resp' = Response("finish", 200, req[p].attempt, "")
    /\ pc' = [pc EXCEPT ![p] = "idle"]
    /\ UNCHANGED <<quizzes, questions, answers, nextId, now, req, mem, pend, nreq>>

ConcStart == \E p \in Procs, u \in Users, qz \in QuizInputs : BeginStart(p, u, qz)
ConcCreate == \E p \in Procs : CreateAttempt(p)
\* Every BeginAnswer step of a request that carries no current_question_index,
\* one request for each family of refused requests.
ConcAnswer ==
    \E p \in Procs, u \in Users, a \in AttemptIds :
        IF GetAttemptStatus(attempts, a, u) # 200
        THEN BeginAnswer(p, u, a, 1, "A", NoIndex, FALSE)
        ELSE \E q \in QuestionInputs :
                IF ValidateAnswer(attempts[a], questions, q, "A").status # 200
                THEN BeginAnswer(p, u, a, q, "A", NoIndex, FALSE)
                ELSE \E o \in OptionInputs, finish \in BOOLEAN :
                        BeginAnswer(p, u, a, q, o, NoIndex, finish)
ConcUpsert == \E p \in Procs : UpsertAnswer(p)
ConcRecalcAnswer == \E p \in Procs : RecalcAnswer(p)
ConcCommitAnswer == \E p \in Procs : CommitAnswer(p)
ConcFinish == \E p \in Procs, u \in Users, a \in AttemptIds : BeginFinish(p, u, a)
ConcRecalcFinish == \E p \in Procs : RecalcFinish(p)
ConcCommitFinish == \E p \in Procs : CommitFinish(p)

ConcNext ==
    \/ ConcStart \/ ConcCreate
    \/ ConcAnswer \/ ConcUpsert \/ ConcRecalcAnswer \/ ConcCommitAnswer
    \/ ConcFinish \/ ConcRecalcFinish \/ ConcCommitFinish
ConcSpec == Init /\ [][ConcNext]_vars


\* ------------------------------------------------------------- GenSpec
\* One run of generate_quiz_from_transcript: a step is a model call, answered
\* by any of Responses, or what the run does with the outcome of its call.
GenInit ==
    /\ StoreInit
    /\ pipe = NoPipe
    /\ ref = NoRef
    /\ proc = NoProc
    /\ calc = NoCalc
    /\ \E transcript \in Transcripts, hasKey \in BOOLEAN : gen = StartRun(transcript, hasKey)

Generate == \E i \in 1..Len(Responses) : GenerateCall(Responses[i])
Repair == \E i \in 1..Len(Responses) : RepairCall(Responses[i])

GenNext == Generate \/ HandleGenerate \/ Repair \/ HandleRepair
GenSpec == GenInit /\ [][GenNext]_vars

\* ------------------------------------------------------------- PipeSpec
\* One run of create_quiz_for_user, with requests for the quiz list running
\* beside it.  The model answers of the run:
PipeResponses ==
    <<TextResponse(Plain("m1")), TextResponse(Plain("m5")),
      TextResponse(<<"word">>), ClientError(429, << >>)>>

ResolveRef == \E u \in Users, url \in PipeUrls : ResolveStage(u, url)
Download == \E outcome \in DownloadOutcomes, content \in Contents :
                DownloadStage(outcome, content)
Transcribe == \E whisper \in WhisperOutcomes : TranscribeStage(whisper)
StartGenerate == \E hasKey \in BOOLEAN : GenerateStage(hasKey)
PipeGenerate == \E i \in 1..Len(PipeResponses) : GenerateCall(PipeResponses[i])
PipeRepair == \E i \in 1..Len(PipeResponses) : RepairCall(PipeResponses[i])
CreateQuiz == \E db \in DbOutcomes : CreateQuizRow(db)
BulkCreate == \E db \in DbOutcomes : BulkCreateQuestions(db)
Commit == \E db \in DbOutcomes : CommitQuiz(db)
RemoveAudio == \E remove \in RemoveOutcomes : Cleanup(remove)
ListQuizzes == \E u \in Users : ListQuizRows(u)

PipeNext ==
    \/ ResolveRef \/ Download \/ Transcribe \/ StartGenerate
    \/ PipeGenerate \/ HandleGenerate \/ PipeRepair \/ HandleRepair
    \/ GenerateReturns \/ CreateQuiz \/ BulkCreate \/ Commit \/ RemoveAudio
    \/ ListQuizzes \/ ListQuestionRows
PipeSpec == Init /\ [][PipeNext]_vars

\* ------------------------------------------------------------- UrlSpec
\* One video reference is resolved: its id is extracted, then the canonical
\* URL is built from the id.
Extract == \E url \in UrlPool : ExtractId(url)

\* download_youtube_audio(video_url), its first two statements: the
\* canonical URL create_quiz_for_user passes is resolved once more.
ResolveAgain ==
    /\ ref.phase = "canonical"
    /\ ref.video_url.ok
    /\ ref' = [ref EXCEPT
                 !.phase = "again",
                 !.again = [video_id |-> extract_youtube_video_id(ref.video_url.value),
                            video_url |-> resolve_url(ref.video_url.value)]]
    /\ UNCHANGED <<dbVars, resp, procVars, proc, calc, quizText, gen, pipe>>

UrlNext == Extract \/ CanonicalUrl \/ ResolveAgain
UrlSpec == Init /\ [][UrlNext]_vars

\* ------------------------------------------------------------- ScoreSpec
\* score_percent is read once on an attempt with any counters.
ScoreInit ==
    /\ StoreInit
    /\ gen = NoRun
    /\ pipe = NoPipe
    /\ ref = NoRef
    /\ proc = NoProc
    /\ \E c \in 0..MaxCount, t \in 0..MaxCount :
          calc = [NoCalc EXCEPT !.correct_count = c, !.total_questions = t]
ScoreSpec == ScoreInit /\ [][ScorePercent]_vars

\* ------------------------------------------------------------- claims
\* The attempts of user u on quiz qz that are not completed.
OpenOf(u, qz) ==
    {a \in DOMAIN attempts :
        attempts[a].user = u /\ attempts[a].quiz = qz /\ ~attempts[a].is_completed}

\* The stored answers of attempt a whose selected option is the answer of
\* their question.
RightAnswers(rows, a) ==
    {r \in rows : r.attempt = a /\ r.selected_option = QuestionAnswer(r.question)}

\* A SaveAnswer request that passes every check of the handler.
ValidSave(u, a, q, o) ==
    /\ a \in DOMAIN attempts
    /\ attempts[a].user = u
    /\ q \in questions
    /\ QuestionQuiz(q) = attempts[a].quiz
    /\ o \in QuestionOptions(q)

\* C1: with the handlers run one at a time, every attempt's stored
\* correct_count is the number of its stored answers whose selected option is
\* the question's answer; and a SaveAnswer leaves exactly one stored answer
\* for its question, the one it selected, so that only the latest selection
\* of a question is counted.
C1_ScoreMatchesAnswers ==
    /\ \A a \in DOMAIN attempts :
          attempts[a].correct_count = Cardinality(RightAnswers(answers, a))
    /\ \A u \in Users, a \in AttemptIds, q \in QuestionIds, o \in OptionInputs,
          idx \in IndexInputs, finish \in BOOLEAN :
          ValidSave(u, a, q, o) =>
             ~ENABLED (/\ SaveAnswer(u, a, q, o, idx, finish)
                       /\ ~(/\ {r \in answers' : r.attempt = a /\ r.question = q}
                                 = {AnswerRow(a, q, o, o = QuestionAnswer(q), 1)}
                            /\ attempts'[a].correct_count
                                 = Cardinality(RightAnswers(answers', a))))

\* C1 witness: the last request saved an answer on an attempt that now holds
\* one right and one wrong answer and a score of 1.
C1_Witness ==
    /\ resp.op = "answer" /\ resp.status = 200
    /\ \E r1, r2 \in answers :
          /\ r1.attempt = resp.id /\ r2.attempt = resp.id
          /\ r1.is_correct /\ ~r2.is_correct
    /\ attempts[resp.id].correct_count = 1

\* C3: with the handlers run one at a time, an attempt that is completed is
\* still stored and still completed after every step.
C3_CompletedIsTerminal ==
    [][\A a \in DOMAIN attempts :
          attempts[a].is_completed =>
             (a \in DOMAIN attempts' /\ attempts'[a].is_completed)]_vars

\* C3 witness: the last request saved an answer, without error, on an
\* attempt that is completed.
C3_Witness ==
    /\ resp.op = "answer" /\ resp.status = 200
    /\ attempts[resp.id].is_completed
    /\ attempts[resp.id].completed_at # <<now - 1>>

\* C6: when no start is forced and the handlers run one at a time, every
\* (user, quiz) pair has at most one attempt that is not completed.
C6_AtMostOneOpen ==
    \A u \in Users, qz \in QuizIds : Cardinality(OpenOf(u, qz)) <= 1

\* C6 witness: a pair with a completed attempt and an open one.
C6_Witness ==
    \E a, b \in DOMAIN attempts :
        /\ attempts[a].user = attempts[b].user
        /\ attempts[a].quiz = attempts[b].quiz
        /\ attempts[a].is_completed /\ ~attempts[b].is_completed

\* C8: a start that is not forced, for a pair with an open attempt, answers
\* 200 with one of the pair's open attempts, creates no attempt and changes
\* no stored row; and right after a successful start of a pair, a start of
\* the same pair that is not forced returns the same attempt id.
C8_ResumeIsIdempotent ==
    /\ \A u \in Users, qz \in QuizIds :
          (qz \in quizzes /\ QuizOwner(qz) = u /\ OpenOf(u, qz) # {}) =>
             ~ENABLED (/\ StartAttempt(u, qz, FALSE)
                       /\ ~(/\ attempts' = attempts
                            /\ answers' = answers
                            /\ nextId' = nextId
                            /\ resp'.status = 200
                            /\ resp'.id \in OpenOf(u, qz)))
    /\ (resp.op = "start" /\ resp.status \in {200, 201}) =>
          ~ENABLED (/\ StartAttempt(attempts[resp.id].user, attempts[resp.id].quiz, FALSE)
                    /\ resp'.id # resp.id)

\* C8 witness: the last request resumed (200) an attempt that has a stored
\* answer and a moved progress pointer.
C8_Witness ==
    /\ resp.op = "start" /\ resp.status = 200
    /\ attempts[resp.id].current_question_index # 0
    /\ \E r \in answers : r.attempt = resp.id

\* C9: on a completed attempt, a Finish and a valid SaveAnswer with
\* finish=true both answer 200 and leave is_completed true and completed_at
\* as it was.
C9_FinishIsIdempotent ==
    \A u \in Users, a \in AttemptIds :
        (a \in DOMAIN attempts /\ attempts[a].user = u /\ attempts[a].is_completed) =>
           /\ ~ENABLED (/\ FinishAttempt(u, a)
                        /\ ~(/\ resp'.status = 200
                             /\ attempts'[a].is_completed
                             /\ attempts'[a].completed_at = attempts[a].completed_at))
           /\ \A q \in QuestionIds, o \in OptionInputs, idx \in IndexInputs :
                 ValidSave(u, a, q, o) =>
                    ~ENABLED (/\ SaveAnswer(u, a, q, o, idx, TRUE)
                              /\ ~(/\ resp'.status = 200
                                   /\ attempts'[a].is_completed
                                   /\ attempts'[a].completed_at = attempts[a].completed_at))

\* C9 witness: the last request was a Finish answered 200 on an attempt
\* completed before the clock's last reading, so by an earlier request.
C9_Witness ==
    /\ resp.op = "finish" /\ resp.status = 200
    /\ attempts[resp.id].is_completed
    /\ attempts[resp.id].completed_at # <<now - 1>>

\* C10: a SaveAnswer on an attempt of the caller whose question is stored
\* but belongs to another quiz, or whose option is none of the question's
\* options, answers 400 and leaves every stored attempt and answer as it
\* was, whatever current_question_index and finish it carries.
C10_InvalidAnswerMutatesNothing ==
    \A u \in Users, a \in AttemptIds :
        (a \in DOMAIN attempts /\ attempts[a].user = u) =>
           \A q \in questions, o \in OptionInputs :
               (QuestionQuiz(q) # attempts[a].quiz \/ o \notin QuestionOptions(q)) =>
                  \A idx \in IndexInputs, finish \in BOOLEAN :
                     ~ENABLED (/\ SaveAnswer(u, a, q, o, idx, finish)
                               /\ ~(/\ resp'.status = 400
                                    /\ attempts' = attempts
                                    /\ answers' = answers))

\* C10 witness: the last request was a SaveAnswer refused for its option on
\* an open attempt that holds an answer.
C10_Witness ==
    /\ resp.op = "answer" /\ resp.status = 400 /\ resp.detail = "option"
    /\ \E a \in DOMAIN attempts :
          /\ ~attempts[a].is_completed
          /\ \E r \in answers : r.attempt = a

\* No transaction is open and no request is in progress.
Quiescent == \A p \in Procs : pc[p] = "idle"

\* C2: under interleaved requests the committed answers never hold two rows
\* for one (attempt, question) pair, and when a SaveAnswer commits, the only
\* row of its pair is the one it wrote: its selected option and its
\* is_correct.
C2_OneAnswerPerQuestion ==
    [][/\ \A a \in AttemptIds, q \in QuestionIds :
             Cardinality({r \in answers' : r.attempt = a /\ r.question = q}) <= 1
       /\ \A p \in Procs :
             (pc[p] = "answer_save" /\ pc'[p] = "idle") =>
                {r \in answers' : r.attempt = req[p].attempt /\ r.question = req[p].question}
                  = {[attempt |-> req[p].attempt, question |-> req[p].question,
                      selected_option |-> req[p].selected_option,
                      is_correct |-> (req[p].selected_option = QuestionAnswer(req[p].question)),
                      copy |-> 1]}]_vars

\* C2 witness: a worker is at the upsert of a pair that has no committed row
\* while another worker's insert of the same pair is not yet committed.
C2_Witness ==
    \E p, o \in Procs :
        /\ p # o
        /\ pc[p] = "answer_upsert"
        /\ pend[o].kind = "insert"
        /\ pend[o].row.attempt = req[p].attempt
        /\ pend[o].row.question = req[p].question
        /\ pend[o].row.selected_option # req[p].selected_option
        /\ \A r \in answers : r.attempt # req[p].attempt

\* C4 as claimed: once the interleaved SaveAnswer transactions have
\* committed, every attempt's committed correct_count is the number of its
\* committed answers with is_correct true.  (No attempt is completed: no
\* Finish and no finish=true took part.)
C4_ConcurrentScoreMatches ==
    (Quiescent /\ \A a \in DOMAIN attempts : ~attempts[a].is_completed) =>
        \A a \in DOMAIN attempts :
            attempts[a].correct_count
              = Cardinality({r \in answers : r.attempt = a /\ r.is_correct})

\* C5 as claimed: a committed completion is never lost: an attempt committed
\* as completed, with its completed_at, stays so at every later commit.
C5_CompletionNeverLost ==
    [][\A a \in DOMAIN attempts :
          (attempts[a].is_completed /\ attempts[a].completed_at # Null) =>
             (attempts'[a].is_completed /\ attempts'[a].completed_at # Null)]_vars

\* C7 as claimed: under interleaved starts, none of them forced, every
\* (user, quiz) pair has at most one attempt that is not completed.
C7_ConcurrentAtMostOneOpen ==
    \A u \in Users, qz \in QuizIds : Cardinality(OpenOf(u, qz)) <= 1

\* ------------------------------------------------------------- claims of GenSpec
\* A draft with a title, a description and exactly 10 questions, each with
\* exactly 4 options that are not empty and differ from each other, and an
\* answer that is one of them.
WellFormedDraft(d) ==
    /\ d.title # << >>
    /\ d.description # << >>
    /\ Len(d.questions) = 10
    /\ \A i \in 1..Len(d.questions) :
          LET q == d.questions[i]
          IN /\ Len(q.question_options) = 4
             /\ \A j \in 1..4 : q.question_options[j] # << >>
             /\ \A j, k \in 1..4 : j # k => q.question_options[j] # q.question_options[k]
             /\ \E j \in 1..4 : q.question_options[j] = q.answer

\* The run is over.
GenDone == gen.phase = "done"

\* The run holds the outcome of a model call that it has not handled yet.
Answered == gen.phase \in {"generated", "repaired"}

\* C12: whenever generate_quiz_from_transcript has returned, after whatever
\* calls, the draft it returned has a title and a description that are not
\* empty and exactly 10 questions, each with exactly 4 distinct non-empty
\* options and an answer among them.
C12_ReturnedDraftIsWellFormed ==
    gen.outcome = "returned" => WellFormedDraft(gen.result)

\* C12 witness: the run returned a draft from the repair call of its third
\* attempt.
C12_Witness ==
    /\ gen.outcome = "returned"
    /\ Len(gen.calls) = 6
    /\ gen.calls[6] = [kind |-> "repair", attempt |-> 3]

\* The text c of an answer is a JSON object that fails the schema.
ObjectFailingSchema(c) ==
    /\ c.kind = "text"
    /\ c.text # << >>
    /\ parse_ai_quiz_json(c.text).ok
    /\ ~validate_quiz_schema(parse_ai_quiz_json(c.text).data).ok

\* C13: the first call of an attempt is followed by a repair call exactly
\* when its answer parsed to a JSON object that failed the schema; the
\* outcome of a repair call, whatever it is, ends the attempt: the run ends
\* or goes to the next attempt, never to another repair call; every repair
\* call in the log comes right after the generation call of its own
\* attempt, so each attempt has at most one; and an empty first answer leads
\* to no repair call but to the next attempt (on the last attempt, to the
\* error).
C13_RepairExactlyOnce ==
    /\ [](\A i \in 1..Len(gen.calls) :
            gen.calls[i].kind = "repair" =>
               /\ i > 1
               /\ gen.calls[i - 1] = [kind |-> "generate", attempt |-> gen.calls[i].attempt])
    /\ [][/\ gen.phase = "generated" =>
               /\ (gen'.phase = "repair") <=> ObjectFailingSchema(gen.response)
               /\ gen'.phase = "repair" => gen'.attempt = gen.attempt
               /\ (gen.response.kind = "text" /\ gen.response.text = << >>) =>
                     IF gen.attempt < 3
                     THEN gen'.phase = "generate" /\ gen'.attempt = gen.attempt + 1
                     ELSE gen'.outcome = "raised"
          /\ gen.phase = "repaired" =>
               /\ gen'.phase \in {"generate", "done"}
               /\ gen'.phase = "generate" => gen'.attempt = gen.attempt + 1
          /\ gen'.phase = "repaired" => gen.phase = "repair"]_vars

\* C13 witness: the second attempt is about to make its repair call after
\* the first attempt's repair call failed.
C13_Witness ==
    /\ gen.phase = "repair"
    /\ gen.attempt = 2
    /\ gen.calls = << [kind |-> "generate", attempt |-> 1], [kind |-> "repair", attempt |-> 1],
                      [kind |-> "generate", attempt |-> 2] >>

\* How far a run has come: four per attempt begun, one more for each of the
\* first call, its handling and the repair call, and past every attempt
\* when it is over.
Progress(g) ==
    IF g.phase = "done" THEN 4 * 3 + 4
    ELSE 4 * g.attempt + (IF g.phase = "generated" THEN 1
                          ELSE IF g.phase = "repair" THEN 2
                          ELSE IF g.phase = "repaired" THEN 3 ELSE 0)

\* The message of the validation error that the text c of an answer raises
\* when it fails in the given phase.
FailureOf(phase, c) ==
    IF phase = "generated" /\ c.text = << >> THEN "Gemini returned empty output."
    ELSE IF ~parse_ai_quiz_json(c.text).ok THEN parse_ai_quiz_json(c.text).error
    ELSE validate_quiz_schema(parse_ai_quiz_json(c.text).data).error

\* C14: a run makes at most 3 attempts and at most 6 model calls, at most
\* two per attempt; every step brings it nearer to its end, which it
\* reaches within 16 steps; it ends with a validated draft or with an error;
\* and when the answer of the third attempt fails validation, the run ends
\* in that step with that failure's error, and no fourth attempt begins.
C14_TerminatesWithinThreeAttempts ==
    /\ [](/\ gen.attempt <= 3
          /\ Len(gen.calls) <= 6
          /\ \A n \in 1..3 :
                Cardinality({i \in 1..Len(gen.calls) : gen.calls[i].attempt = n}) <= 2
          /\ GenDone =>
                \/ gen.outcome = "returned" /\ WellFormedDraft(gen.result)
                \/ gen.outcome = "raised" /\ gen.error.msg # "")
    /\ [][/\ Progress(gen') > Progress(gen)
          /\ (gen.attempt = 3 /\ gen.response.kind = "text" /\ gen'.phase \notin {"repair", "done"})
                => FALSE
          /\ (gen.attempt = 3 /\ gen.response.kind = "text" /\ gen'.outcome = "raised") =>
                gen'.error.msg = FailureOf(gen.phase, gen.response)]_vars

\* C14 witness: the run is over with the schema error of the repair call of
\* its third attempt, after 6 calls and 2 sleeps.
C14_Witness ==
    /\ GenDone /\ gen.outcome = "raised"
    /\ Len(gen.calls) = 6
    /\ gen.sleeps = 2
    /\ gen.error.msg = "options must be distinct"

RateLimitMessage == "Gemini quota/rate limit exceeded (HTTP 429). Try again later."

\* The call was answered with HTTP 429: it raised a ClientError whose code
\* is 429.
RateLimited(c) == c.kind = "client_error" /\ c.status = 429

\* C15: when a generation call or a repair call, of any attempt, was
\* answered with 429, the run ends in its next step with the rate-limit
\* error, without a sleep and without another call; a run that is over
\* takes no step; and the rate-limit error is raised for nothing else: a run
\* ends with that message only after a 429.
C15_RateLimitIsTerminal ==
    [][/\ ~GenDone
       /\ (Answered /\ RateLimited(gen.response)) =>
             /\ gen'.phase = "done"
             /\ gen'.outcome = "raised"
             /\ gen'.error.msg = RateLimitMessage
             /\ gen'.sleeps = gen.sleeps
             /\ gen'.attempt = gen.attempt
             /\ gen'.calls = gen.calls
       /\ gen'.error.msg = RateLimitMessage => RateLimited(gen.response)]_vars

\* The text c of an answer, handled in the given phase, is a
\* validation-class failure of the attempt: empty output, unparsable
\* output, or a schema failure after the repair.
ValidationFailure(phase, c) ==
    /\ c.kind = "text"
    /\ \/ phase = "generated" /\ c.text = << >>
       \/ ~parse_ai_quiz_json(c.text).ok
       \/ phase = "repaired" /\ ~validate_quiz_schema(parse_ai_quiz_json(c.text).data).ok

\* C16: a further attempt starts only from the outcome of a call that was a
\* validation-class failure (empty output, unparsable output, schema
\* failure after the repair); when a generation call or a repair call
\* raised a client error other than 429 or another exception, the run ends
\* in its next step with an error, without a sleep and without another
\* call; a run that is over takes no step.
C16_RetryOnlyAfterValidationFailure ==
    [][/\ ~GenDone
       /\ gen'.attempt > gen.attempt =>
             /\ Answered
             /\ ValidationFailure(gen.phase, gen.response)
             /\ gen'.sleeps = gen.sleeps + 1
       /\ (Answered /\ (\/ gen.response.kind = "exception"
                         \/ (gen.response.kind = "client_error"
                               /\ gen.response.status # 429))) =>
             /\ gen'.phase = "done"
             /\ gen'.outcome = "raised"
             /\ gen'.error.msg \in {"Gemini request failed (HTTP None).",
                                    "Gemini request failed (HTTP 403).",
                                    "Unexpected error while calling Gemini."}
             /\ gen'.sleeps = gen.sleeps
             /\ gen'.attempt = gen.attempt
             /\ gen'.calls = gen.calls]_vars

\* ------------------------------------------------------------- claims of AccessSpec
\* The persisted rows.
Store == <<quizzes, questions, attempts, answers, nextId, quizText>>

\* 404 for a quiz that is not stored, 403 for a stored quiz of another user,
\* 0 for the user's own quiz.
QuizDenial(u, qz) ==
    IF qz \notin quizzes THEN 404 ELSE IF QuizOwner(qz) # u THEN 403 ELSE 0

\* The same for an attempt.
AttemptDenial(u, a) ==
    IF a \notin DOMAIN attempts THEN 404
    ELSE IF attempts[a].user # u THEN 403 ELSE 0

\* Every request of user u that names quiz qz.
QuizOps(u, qz) ==
    \/ \E force \in BOOLEAN : StartAttempt(u, qz, force)
    \/ QuizDetail(u, qz)
    \/ \E body \in PatchInputs : QuizPatch(u, qz, body.title, body.description)
    \/ QuizDelete(u, qz)

\* Every request of user u that names attempt a.
AttemptOps(u, a) ==
    \/ AttemptDetail(u, a)
    \/ \E q \in QuestionInputs, o \in OptionInputs, idx \in IndexInputs,
          finish \in BOOLEAN : SaveAnswer(u, a, q, o, idx, finish)
    \/ FinishAttempt(u, a)
    \/ AttemptResult(u, a)

\* C11: every request that names a quiz or an attempt that is not stored is
\* answered 404, every request that names one stored for another user is
\* answered 403, each such request is answered, and none of them changes a
\* persisted row.
C11_NotFoundAndForbiddenAreDistinct ==
    \A u \in Users :
        /\ \A qz \in QuizInputs :
              QuizDenial(u, qz) # 0 =>
                /\ ENABLED StartAttempt(u, qz, TRUE)
                /\ ENABLED StartAttempt(u, qz, FALSE)
                /\ ENABLED QuizDetail(u, qz)
                /\ ENABLED QuizPatch(u, qz, Absent, Absent)
                /\ ENABLED QuizDelete(u, qz)
                /\ ~ENABLED (/\ QuizOps(u, qz)
                             /\ ~(/\ resp'.status = QuizDenial(u, qz)
                                  /\ UNCHANGED Store))
        /\ \A a \in AttemptIds :
              AttemptDenial(u, a) # 0 =>
                /\ ENABLED AttemptDetail(u, a)
                /\ ENABLED SaveAnswer(u, a, 1, "A", NoIndex, FALSE)
                /\ ENABLED FinishAttempt(u, a)
                /\ ENABLED AttemptResult(u, a)
                /\ ~ENABLED (/\ AttemptOps(u, a)
                             /\ ~(/\ resp'.status = AttemptDenial(u, a)
                                  /\ UNCHANGED Store))

\* A request for an attempt of the other user was answered 403 after an
\* attempt had been removed with its quiz, so that the next request for the
\* removed attempt is answered 404.
C11_Witness ==
    /\ resp.status = 403
    /\ resp.op \in {"view", "answer", "finish", "result"}
    /\ quizzes # QuizIds
    /\ nextId = MaxAttempts + 1
    /\ Cardinality(DOMAIN attempts) = 1

\* ------------------------------------------------------------- claims of UrlSpec
\* The references to id in the four shapes: watch?v=, youtu.be/, shorts/ and
\* embed/, on every host, plain and dressed.
ShapesOf(id) == PlainUrls(id) \cup DressedUrls(id)

\* C20: a reference to a valid 11-character id in any of the four shapes
\* resolves to that id, and the canonical URL built from it is
\* https://www.youtube.com/watch?v= followed by the id; hence the four shapes
\* of one id resolve to the same id and the same canonical URL.
C20_ShapesResolveToSameCanonicalUrl ==
    \A id \in ValidIds :
        ref.url \in ShapesOf(id) =>
            /\ ref.phase \in {"extracted", "canonical"} =>
                  ref.video_id = [ok |-> TRUE, value |-> id, msg |-> ""]
            /\ ref.phase = "canonical" =>
                  ref.video_url =
                    [ok |-> TRUE, msg |-> "",
                     value |-> <<"https://", "www.", "youtube.com", "/", "watch",
                                 "?", "v", "=">> \o id]

\* The shortened reference to an id with - and _ has been resolved.
C20_Witness ==
    /\ ref.phase = "canonical"
    /\ ref.url = <<"https://", "youtu.be", "/", "-", "_", "9", "Z", "a", "b", "c",
                   "d", "e", "f", "g">>
    /\ ref.video_url.ok

\* ------------------------------------------------------------- claims of PipeSpec
\* The stages called so far are the first stages, in their order.
InOrder(log) == Len(log) <= Len(Stages) /\ log = SubSeq(Stages, 1, Len(log))

\* No row of the new quiz is committed.
NothingPersisted ==
    /\ NewQuizId \notin quizzes
    /\ NewQuizId \notin DOMAIN quizText
    /\ questions \cap NewQuestionIds = {}

\* C17: the stages of create_quiz_for_user are called in the order resolve,
\* download, transcribe, generate, persist; a stage is called only when the
\* stage before it has given its result (the canonical URL, the audio file,
\* a transcript that is not blank, a validated draft); after a stage has
\* failed no further stage is called, and no Quiz or Question row of the
\* run is committed, whether the run is still in its finally clause or has
\* raised.
C17_StagesRunInOrderAndFailureLeavesNoRows ==
    /\ InOrder(pipe.log)
    /\ Len(pipe.log) >= 2 =>
          /\ pipe.video_url # << >>
          /\ SubSeq(pipe.video_url, 1, 8) =
                <<"https://", "www.", "youtube.com", "/", "watch", "?", "v", "=">>
    /\ Len(pipe.log) >= 3 => pipe.audio_path # ""
    /\ Len(pipe.log) >= 4 => pipe.transcript # << >> /\ pipe.transcript = strip(pipe.transcript)
    /\ Len(pipe.log) >= 5 =>
          /\ gen.outcome = "returned"
          /\ pipe.quiz_data = gen.result
          /\ Len(pipe.quiz_data.questions) = NumQuestions
    /\ pipe.failed # "" =>
          /\ pipe.log # << >>
          /\ pipe.log[Len(pipe.log)] = pipe.failed
          /\ pipe.stage \in {"finally", "done"}
          /\ NothingPersisted
    /\ pipe.outcome = "raised" => pipe.failed # ""
    /\ pipe.outcome = "returned" =>
          /\ pipe.failed = ""
          /\ pipe.log = Stages
          /\ NewQuizId \in quizzes

\* The store raised at the end of the transaction, after both INSERTs, and
\* the run has raised.
C17_Witness ==
    /\ pipe.outcome = "raised"
    /\ pipe.failed = "persist"
    /\ pipe.log = Stages
    /\ NothingPersisted

\* C18: in every committed state of the store, while create_quiz_for_user
\* runs and after it has returned or raised, a stored quiz has questions,
\* and the new quiz is stored with all the questions of its draft; no
\* request for the quiz list has read a quiz and then found no question of
\* it.
C18_QuizCreationIsAtomic ==
    /\ \A qz \in quizzes : QuestionCount(questions, qz) > 0
    /\ quizzes = DOMAIN quizText
    /\ NewQuizId \in quizzes =>
          /\ NewQuestionIds \subseteq questions
          /\ QuestionCount(questions, NewQuizId) = Len(pipe.quiz_data.questions)
    /\ pipe.obs.step = "quizzes_read" =>
          \A qz \in pipe.obs.quizzes : QuestionCount(questions, qz) > 0
    /\ resp.op = "list" => resp.detail = ""

\* A request for the quiz list has read the new quiz while the run was in
\* its finally clause, and another had been answered before.
C18_Witness ==
    /\ pipe.stage = "finally"
    /\ pipe.failed = ""
    /\ pipe.obs.step = "quizzes_read"
    /\ NewQuizId \in pipe.obs.quizzes
    /\ resp.op = "list"

\* C19: when a run of create_quiz_for_user whose download returned an audio
\* file has returned or raised, the file no longer exists.
C19_AudioRemovedAtExit ==
    (pipe.stage = "done" /\ pipe.audio_path # "") => pipe.file # "exists"

\* ------------------------------------------------------------- claims of ScoreSpec
\* C26: score_percent of an attempt with total_questions 0 is 0.0; otherwise
\* it is the tenth of a percent nearest to 100 * correct_count /
\* total_questions, the even tenth when two are equally near.
C26_ScorePercentIsRoundedRatio ==
    calc.percent # << >> =>
        LET p == calc.percent[1]
            c == calc.correct_count
            t == calc.total_questions
            d == p * t - 1000 * c
        IN IF t = 0 THEN p = 0
           ELSE /\ 2 * d <= t
                /\ 2 * d >= 0 - t
                /\ (2 * d = t \/ 2 * d = 0 - t) => p % 2 = 0

\* 1 of 16: 6.25 percent lies between two tenths and is given as 6.2.
C26_Witness ==
    /\ calc.correct_count = 1
    /\ calc.total_questions = 16
    /\ calc.percent = <<62>>

\* The references in which the rules of extract_youtube_video_id find no
\* token, or a token that is not 11 characters of [A-Za-z0-9_-]: no text,
\* no str, the references to the ids that are not valid, and the references
\* that are none.
InvalidReferences ==
    {<< >>} \cup NotStr
    \cup UNION {ShapesOf(id) : id \in RefIds \ ValidIds}
    \cup UNION {OtherUrls(id) : id \in RefIds}

\* C21: extract_youtube_video_id raises its validation error for every
\* reference that is empty, no str, or whose token is absent or not 11
\* characters of [A-Za-z0-9_-]; an id it returns has 11 characters of that
\* class and is the token of the reference.
C21_InvalidReferenceIsRejected ==
    ref.phase \in {"extracted", "canonical"} =>
        /\ ref.url \in InvalidReferences =>
              /\ ~ref.video_id.ok
              /\ ref.video_id.msg \in {"URL is missing or invalid.",
                                        "Could not extract a valid YouTube video ID."}
        /\ ref.video_id.ok =>
              /\ Len(ref.video_id.value) = 11
              /\ \A i \in 1..Len(ref.video_id.value) :
                    ref.video_id.value[i] \in
                      {"a", "b", "c", "d", "e", "f", "g", "h", "i", "j", "k",
                       "Z", "9", "_", "-"}
              /\ \E id \in ValidIds :
                    ref.url \in ShapesOf(id) /\ ref.video_id.value = id

\* A shorts/ reference to an id with a character outside the class has been
\* rejected.
C21_Witness ==
    /\ ref.phase = "extracted"
    /\ ref.url = <<"https://", "www.", "youtube.com", "/", "shorts", "/",
                   "a", "b", "c", "d", "e", "!", "g", "h", "i", "j", "k">>
    /\ ~ref.video_id.ok

\* ------------------------------------------------------------- claims of Spec
\* C22: every stored AttemptAnswer has is_correct equal to "its selected
\* option is the answer of its question", its question belongs to the quiz
\* of its attempt, and its selected option is one of the question's options.
C22_StoredAnswersAreGraded ==
    \A r \in answers :
        /\ r.attempt \in DOMAIN attempts
        /\ r.is_correct = (r.selected_option = QuestionAnswer(r.question))
        /\ QuestionQuiz(r.question) = attempts[r.attempt].quiz
        /\ r.selected_option \in QuestionOptions(r.question)

\* An attempt holds a correct and a wrong answer, the wrong one stored by
\* the last request.
C22_Witness ==
    /\ resp.op = "answer"
    /\ resp.status = 200
    /\ \E r1 \in answers, r2 \in answers :
          /\ r1.attempt = r2.attempt
          /\ r1.is_correct
          /\ ~r2.is_correct

\* ------------------------------------------------------------- DetailSpec
\* AttemptResultView.get, query by query, on worker 1.  It runs in no
\* transaction: each query sees what is committed when it runs.

\* The rows of a set of ids, ordered by id.
RECURSIVE order_by_id(_)
order_by_id(ids) ==
    IF ids = {} THEN << >>
    ELSE LET m == CHOOSE x \in ids : \A y \in ids : x <= y
         IN <<m>> \o order_by_id(ids \ {m})

\* The values of ?details= the requests carry.
DetailsInputs == {"1", "yes"}

\* 'request.query_params.get("details") in ("1", "true", "True")'
include_details(details) == details \in {"1", "true", "True"}

\* .select_related("quiz").prefetch_related("answers", "quiz__questions").get()
\* runs three queries, in this order: the attempt row joined with its quiz,
\* the answers of the attempt, the questions of its quiz.
RowRead(att) == [row |-> att, answers |-> {}, questions |-> {}]
AnswersRead(m, rows, a) == [m EXCEPT !.answers = {r \in rows : r.attempt = a}]
QuestionsRead(m, qs) == [m EXCEPT !.questions = {q \in qs : QuestionQuiz(q) = m.row.quiz}]

\* One entry of details: "a = answer_map.get(q.id)" and the dict appended.
detail_entry(answer_map, q) ==
    LET found == {r \in answer_map : r.question = q}
    IN [question_id |-> q,
        question_options |-> QuestionOptions(q),
        correct_answer |-> QuestionAnswer(q),
        selected_option |-> IF found = {} THEN Null
                            ELSE <<(CHOOSE r \in found : TRUE).selected_option>>,
        is_correct |-> IF found = {} THEN FALSE
                       ELSE (CHOOSE r \in found : TRUE).is_correct]

\* Mutant of result_details: the questions without an answer are left out.
result_details_answered(answer_map, qs) ==
    LET rows == order_by_id({q \in qs : \E r \in answer_map : r.question = q})
    IN [i \in 1..Len(rows) |-> detail_entry(answer_map, rows[i])]

\* The loop over attempt.quiz.questions.all().order_by("id")
result_details(answer_map, qs) ==
    LET rows == order_by_id(qs)
    IN [i \in 1..Len(rows) |-> detail_entry(answer_map, rows[i])]

\* The result dict; details is the one-element sequence of the list when
\* the key is set and the empty sequence when it is not.  answer_map is
\* built from the prefetched attempt.answers.all(); the questions come from
\* a new query, order_by making a new QuerySet.
result_dict(a, m, details, qs) ==
    [attempt_id |-> a,
     quiz_id |-> m.row.quiz,
     correct |-> m.row.correct_count,
     total |-> m.row.total_questions,
     percent |-> score_percent(m.row.correct_count, m.row.total_questions),
     is_completed |-> m.row.is_completed,
     details |-> IF include_details(details)
                 THEN <<result_details(m.answers,
                                       {q \in qs : QuestionQuiz(q) = m.row.quiz})>>
                 ELSE << >>]

\* "attempt = _get_attempt_or_403(...)": the lookup query and the owner
\* check; the request goes on with the primary key.
ResultLookup(u, a, details) ==
    /\ pc[1] = "idle"
    /\ LET st == GetAttemptStatus(attempts, a, u)
       IN IF st # 200 THEN
              /\ resp' = Response("result", st, NoId, "")
              /\ UNCHANGED <<pc, req>>
          ELSE
              /\ pc' = [pc EXCEPT ![1] = "found"]
              /\ req' = [req EXCEPT ![1] = [op |-> "result", user |-> u,
                                            attempt |-> a, details |-> details]]
              /\ UNCHANGED resp
    /\ UNCHANGED <<dbVars, mem, pend, nreq, restVars>>

\* The first query of .get(): the row of the attempt with its quiz.  A row
\* that is gone raises DoesNotExist, which nothing catches.
ResultRow ==
    /\ pc[1] = "found"
    /\ IF req[1].attempt \in DOMAIN attempts THEN
           /\ mem' = [mem EXCEPT ![1] = RowRead(attempts[req[1].attempt])]
           /\ pc' = [pc EXCEPT ![1] = "row"]
           /\ UNCHANGED <<resp, req>>
       ELSE
           /\ resp' = Response("result", 500, NoId, "")
           /\ pc' = [pc EXCEPT ![1] = "idle"]
           /\ req' = [req EXCEPT ![1] = NoRequest]
           /\ UNCHANGED mem
    /\ UNCHANGED <<dbVars, pend, nreq, restVars>>

\* The second query of .get(): the prefetch of "answers".
ResultAnswers ==
    /\ pc[1] = "row"
    /\ mem' = [mem EXCEPT ![1] = AnswersRead(mem[1], answers, req[1].attempt)]
    /\ pc' = [pc EXCEPT ![1] = "answers"]
    /\ UNCHANGED <<dbVars, resp, req, pend, nreq, restVars>>

\* The third query of .get(): the prefetch of "quiz__questions".
ResultQuestions ==
    /\ pc[1] = "answers"
    /\ mem' = [mem EXCEPT ![1] = QuestionsRead(mem[1], questions)]
    /\ pc' = [pc EXCEPT ![1] = "fetched"]
    /\ UNCHANGED <<dbVars, resp, req, pend, nreq, restVars>>

\* _recalculate_attempt_score(attempt): the correct answers are counted by a
\* new query, the questions in the prefetched rows; the counters of the
\* in-memory attempt are set and nothing is written.
ResultCount ==
    /\ pc[1] = "fetched"
    /\ LET a == req[1].attempt
       IN mem' = [mem EXCEPT ![1].row =
                     recalculate_attempt_score(mem[1].row, a, answers, mem[1].questions)]
    /\ pc' = [pc EXCEPT ![1] = "counted"]
    /\ UNCHANGED <<dbVars, resp, req, pend, nreq, restVars>>

\* Mutant of ResultSave: the attempt is marked completed before it is
\* saved, and the save writes every field.
ResultSaveCompletes ==
    /\ pc[1] = "counted"
    /\ LET a == req[1].attempt
           row == mark_completed(mem[1].row, now)
       IN /\ mem' = [mem EXCEPT ![1].row = row]
          /\ attempts' = [attempts EXCEPT ![a] = row]
    /\ pc' = [pc EXCEPT ![1] = "scored"]
    /\ UNCHANGED <<quizzes, questions, answers, nextId, now, resp, req, pend, nreq>>
    /\ UNCHANGED restVars

\* attempt.save(update_fields=["correct_count", "total_questions",
\* "updated_at"]): an UPDATE of its own, which writes the counters the
\* in-memory attempt got from the earlier COUNT over whatever was committed
\* in between.
ResultSave ==
    /\ pc[1] = "counted"
    /\ LET a == req[1].attempt
       IN attempts' = [attempts EXCEPT
                         ![a].correct_count = mem[1].row.correct_count,
                         ![a].total_questions = mem[1].row.total_questions]
    /\ pc' = [pc EXCEPT ![1] = "scored"]
    /\ UNCHANGED <<quizzes, questions, answers, nextId, now, resp, req, mem, pend, nreq>>
    /\ UNCHANGED restVars

\* The result dict is built and returned.
ResultRespond ==
    /\ pc[1] = "scored"
    /\ resp' = [op |-> "result", status |-> 200, id |-> req[1].attempt, detail |-> "",
                body |-> result_dict(req[1].attempt, mem[1], req[1].details, questions)]
    /\ pc' = [pc EXCEPT ![1] = "idle"]
    /\ req' = [req EXCEPT ![1] = NoRequest]
    /\ mem' = [mem EXCEPT ![1] = NoRequest]
    /\ UNCHANGED <<dbVars, pend, nreq, restVars>>

\* The SaveAnswer requests that select option A and carry no index and no
\* finish flag.
AnswerA ==
    \E u \in Users, a \in AttemptIds, q \in QuestionIds :
        SaveAnswer(u, a, q, "A", NoIndex, FALSE)

Fetch == \E u \in Users, a \in AttemptIds, details \in DetailsInputs : ResultLookup(u, a, details)

\* The three queries of the prefetching .get()
ResultGet == ResultRow \/ ResultAnswers \/ ResultQuestions

\* ResultSpec: the other handlers run, each in its transaction, while a
\* result request is between two of its queries.
ResultNext ==
    \/ Resume \/ AnswerA \/ Finish
    \/ Fetch \/ ResultRow \/ ResultAnswers \/ ResultQuestions
    \/ ResultCount \/ ResultSave \/ ResultRespond
ResultSpec == Init /\ [][ResultNext]_vars

\* DetailSpec: one request at a time.
ResumeAlone == pc[1] = "idle" /\ Resume
AnswerAlone == pc[1] = "idle" /\ AnswerA
FinishAlone == pc[1] = "idle" /\ Finish
DetailNext ==
    \/ ResumeAlone \/ AnswerAlone \/ FinishAlone
    \/ Fetch \/ ResultRow \/ ResultAnswers \/ ResultQuestions
    \/ ResultCount \/ ResultSave \/ ResultRespond
DetailSpec == Init /\ [][DetailNext]_vars

\* ------------------------------------------------------------- claims of DetailSpec
\* The number of entries of details with is_correct true.
CorrectEntries(details) ==
    Cardinality({i \in 1..Len(details) : details[i].is_correct})

\* C24: a result with details has one entry per question of the attempt's
\* quiz, in increasing id order; the entry of an answered question carries
\* the stored selected_option and is_correct, the entry of a question
\* without an answer carries None and False.
C24_DetailsListEveryQuestion ==
    (resp.op = "result" /\ resp.status = 200 /\ resp.body.details # << >>) =>
        LET a == resp.id
            d == resp.body.details[1]
            qs == {q \in questions : QuestionQuiz(q) = attempts[a].quiz}
        IN /\ Len(d) = Cardinality(qs)
           /\ {d[i].question_id : i \in 1..Len(d)} = qs
           /\ \A i \in 1..Len(d), j \in 1..Len(d) :
                 i < j => d[i].question_id < d[j].question_id
           /\ \A i \in 1..Len(d) :
                 LET rs == RowsOf(answers, a, d[i].question_id)
                 IN IF rs = {}
                    THEN d[i].selected_option = Null /\ ~d[i].is_correct
                    ELSE \E r \in rs :
                           /\ d[i].selected_option = <<r.selected_option>>
                           /\ d[i].is_correct = r.is_correct

\* The details of an attempt on quiz 1 with question 1 answered and
\* question 2 not.
C24_Witness ==
    /\ resp.op = "result"
    /\ resp.status = 200
    /\ resp.body.details # << >>
    /\ Len(resp.body.details[1]) = 2
    /\ resp.body.details[1][1].selected_option = <<"A">>
    /\ resp.body.details[1][1].is_correct
    /\ resp.body.details[1][2].selected_option = Null

\* ------------------------------------------------------------- claims of ResultSpec
\* C25: the correct field of a result with details is the number of its
\* detail entries with is_correct true, also when a SaveAnswer on the
\* attempt commits while the result request is in progress.
C25_SummaryAgreesWithDetails ==
    (resp.op = "result" /\ resp.status = 200 /\ resp.body.details # << >>) =>
        resp.body.correct = CorrectEntries(resp.body.details[1])

\* ------------------------------------------------------------- CreateSpec
\* CreateQuizView.post around one run of create_quiz_for_user.

\* The errors of the run that are no QuizlyValidationError, by class: yt-dlp's
\* DownloadError, the OSError of os.replace and the DatabaseError of the ORM.
OtherErrors == {"DownloadError", "OSError", "DatabaseError"}

\* CreateQuizView.post up to the call: 'if not url' answers 400, else
\* create_quiz_for_user is called.
CreateQuizPost(u, url) ==
    IF url = << >> THEN
        /\ pipe.stage = "idle"
        /\ resp.op # "create"
        /\ resp' = Response("create", 400, NoId, "Missing 'url'.")
        /\ UNCHANGED <<dbVars, procVars, restVars>>
    ELSE ResolveStage(u, url)

\* CreateQuizView.post after the call: the quiz is answered with 201, a
\* QuizlyValidationError with 400 and its text; no other exception is
\* caught, and one the REST framework does not know leaves the view and is
\* answered by the server's 500.
CreateQuizRespond ==
    /\ pipe.stage = "done"
    /\ resp.op # "create"
    /\ resp' = IF pipe.outcome = "returned" THEN Response("create", 201, NewQuizId, "")
               ELSE IF pipe.error \notin OtherErrors
               THEN Response("create", 400, NoId, pipe.error)
               ELSE Response("create", 500, NoId, "unhandled")
    /\ UNCHANGED <<dbVars, procVars, restVars>>

Post == \E u \in Users, url \in PipeUrls : CreateQuizPost(u, url)

CreateNext ==
    \/ Post \/ Download \/ Transcribe \/ StartGenerate
    \/ PipeGenerate \/ HandleGenerate \/ PipeRepair \/ HandleRepair
    \/ GenerateReturns \/ CreateQuiz \/ BulkCreate \/ Commit \/ RemoveAudio
    \/ CreateQuizRespond
CreateSpec == Init /\ [][CreateNext]_vars

\* ------------------------------------------------------------- claims of CreateSpec
\* C27: a fault of quiz creation that is no validation error is answered
\* with the one creation-failed error and never leaves the view unhandled.
C27_UnclassifiedFaultIsWrapped ==
    (resp.op = "create" /\ pipe.outcome = "raised" /\ pipe.error \in OtherErrors) =>
        resp.detail # "unhandled"

\* ------------------------------------------------------------- TranscribeSpec
\* One process serves transcribe_audio calls, one after the other.
TranscribeAudio ==
    \E file \in {"exists", "none"}, content \in Contents,
       model_name \in ModelNames, whisper \in WhisperOutcomes :
        TranscribeCall(file, content, model_name, whisper)

TranscribeSpec == Init /\ [][TranscribeAudio]_vars

\* ------------------------------------------------------------- ClientSpec
\* Two threads of one process call _call_gemini.
LookupClient == \E t \in Threads : ClientLookup(t)
CreateClient == \E t \in Threads, hasKey \in BOOLEAN : ClientCreate(t, hasKey)
StoreClient == \E t \in Threads : ClientStore(t)
CallClient == \E t \in Threads : ClientCall(t)

ClientNext == LookupClient \/ CreateClient \/ StoreClient \/ CallClient
ClientSpec == Init /\ [][ClientNext]_vars

\* ------------------------------------------------------------- claims of TranscribeSpec
\* C28: across the transcribe_audio calls of one process the speech model of
\* a size is loaded at most once.
C28_ModelLoadedOncePerSize ==
    \A name \in ModelNames :
        Cardinality({i \in 1..Len(proc.loads) : proc.loads[i] = name}) <= 1

\* The messages of the validation errors transcribe_audio raises.
TranscribeErrors ==
    {"Audio file not found. Please try again.",
     "Audio file is empty. Please try again.",
     "Audio could not be decoded.",
     "Audio is empty or unreadable.",
     "Whisper failed to transcribe the audio.",
     "Unexpected error while transcribing audio.",
     "Transcription result is empty."}

\* C29: transcribe_audio checks that the path exists, then that the file is
\* not zero bytes, then that it decodes to samples, each with its own
\* error; it loads and invokes the model only when the three hold; every
\* failure, the model's and the empty transcript included, is a validation
\* error.
C29_PreconditionsCheckedInOrder ==
    proc.calls > 0 =>
        LET c == proc.last
            loaded == \E i \in 1..Len(c.ops) : c.ops[i] = "load_model"
        IN /\ c.file # "exists" =>
                 /\ c.ops = <<"exists">>
                 /\ c.result.msg = "Audio file not found. Please try again."
           /\ (c.file = "exists" /\ c.content = "zero_bytes") =>
                 /\ c.ops = <<"exists", "getsize">>
                 /\ c.result.msg = "Audio file is empty. Please try again."
           /\ (c.file = "exists" /\ c.content \in {"undecodable", "no_samples"}) =>
                 /\ c.ops = <<"exists", "getsize", "load_audio">>
                 /\ c.result.msg \in {"Audio could not be decoded.",
                                       "Audio is empty or unreadable."}
           /\ loaded <=> (c.file = "exists" /\ c.content \in {"speech", "silence"})
           /\ ~c.result.ok => c.result.msg \in TranscribeErrors
           /\ c.result.ok => (loaded /\ c.whisper = "ok" /\ c.result.text # << >>)

\* The model raised RuntimeError on a file that passed the three checks.
C29_Witness ==
    /\ proc.calls > 0
    /\ proc.last.file = "exists"
    /\ proc.last.content = "speech"
    /\ proc.last.whisper = "RuntimeError"
    /\ ~proc.last.result.ok

\* ------------------------------------------------------------- claims of ClientSpec
\* C30: the generative client is created on the first model call, at most
\* one client is ever created in the process, and every call uses it.
C30_OneClientPerProcess ==
    /\ proc.created <= 1
    /\ Cardinality(proc.used) <= 1
    /\ (\A t \in Threads : proc.th[t].calls = 0) => proc.created = 0

\* ------------------------------------------------------------- LossSpec
\* The attempt handlers together with the deletion of questions that the
\* admin site offers (QuestionInline of QuizAdmin, QuestionAdmin).

\* A Question is deleted on the admin site; on_delete=CASCADE of
\* AttemptAnswer.question removes the answers given to it.
QuestionDelete(q) ==
    /\ q \in questions
    /\ questions' = questions \ {q}
    /\ answers' = {r \in answers : r.question # q}
    /\ UNCHANGED <<quizzes, attempts, nextId, now, resp>>
    /\ UNCHANGED <<procVars, restVars>>

DeleteQuestion == \E q \in QuestionIds : QuestionDelete(q)

LossNext == Resume \/ AnswerA \/ Finish \/ Result \/ DeleteQuestion
LossSpec == Init /\ [][LossNext]_vars

\* ------------------------------------------------------------- claims of LossSpec
\* C23: the stored total_questions of an attempt never decreases after the
\* attempt is created, whatever SaveAnswer, Finish and Result requests run
\* and whatever questions the quiz has lost.
C23_TotalQuestionsNeverDecreases ==
    [][\A a \in DOMAIN attempts :
          attempts'[a].total_questions >= attempts[a].total_questions]_vars

\* ------------------------------------------------------------- further claims of Spec
\* C32: completed_at of an attempt is set if and only if its is_completed is
\* true; a new attempt has neither, the completion sets both in one write.
C32_CompletedAtIffCompleted ==
    \A a \in DOMAIN attempts :
        (attempts[a].completed_at # Null) <=> attempts[a].is_completed

\* A completed attempt with its timestamp beside a new, open one.
C32_Witness ==
    \E a \in DOMAIN attempts, b \in DOMAIN attempts :
        /\ attempts[a].is_completed
        /\ attempts[a].completed_at # Null
        /\ ~attempts[b].is_completed
        /\ attempts[b].completed_at = Null

\* C33: a valid SaveAnswer on a completed attempt is accepted: it answers
\* 200, stores the answer in place of the one the question had, recomputes
\* correct_count from the stored answers and applies a supplied
\* current_question_index, while is_completed stays true and completed_at
\* stays as it was.
C33_CompletedAttemptTakesAnswers ==
    \A u \in Users, a \in AttemptIds :
        (a \in DOMAIN attempts /\ attempts[a].user = u /\ attempts[a].is_completed) =>
           \A q \in QuestionIds, o \in OptionInputs :
               ValidSave(u, a, q, o) =>
                  \A idx \in IndexInputs, finish \in BOOLEAN :
                     /\ ENABLED SaveAnswer(u, a, q, o, idx, finish)
                     /\ ~ENABLED (/\ SaveAnswer(u, a, q, o, idx, finish)
                                  /\ ~(/\ resp'.status = 200
                                       /\ \E r \in answers' :
                                             /\ r.attempt = a
                                             /\ r.question = q
                                             /\ r.selected_option = o
                                             /\ r.is_correct = (o = QuestionAnswer(q))
                                             /\ RowsOf(answers', a, q) = {r}
                                             /\ answers' \ {r} = answers \ RowsOf(answers, a, q)
                                       /\ attempts'[a].correct_count =
                                             Cardinality({r \in answers' :
                                                 r.attempt = a /\ r.is_correct})
                                       /\ attempts'[a].current_question_index =
                                             IF idx = NoIndex
                                             THEN attempts[a].current_question_index
                                             ELSE idx[1]
                                       /\ attempts'[a].is_completed
                                       /\ attempts'[a].completed_at = attempts[a].completed_at))

\* The last request was a SaveAnswer answered 200 that moved the index of an
\* attempt completed by an earlier request.
C33_Witness ==
    /\ resp.op = "answer"
    /\ resp.status = 200
    /\ resp.id \in DOMAIN attempts
    /\ attempts[resp.id].is_completed
    /\ attempts[resp.id].completed_at # <<now - 1>>
    /\ attempts[resp.id].current_question_index = 1
    /\ \E r \in answers : r.attempt = resp.id /\ ~r.is_correct

\* ------------------------------------------------------------- further claims of DetailSpec
\* An attempt row without its two counters.
Uncounted(att) == [att EXCEPT !.correct_count = 0, !.total_questions = 0]

\* C34: a Result request, with or without details, leaves the stored
\* answers and, of every attempt, all but correct_count and total_questions
\* as they were: is_completed, completed_at and current_question_index do
\* not change, and no row is added or removed.
C34_ResultWritesOnlyCounters ==
    [][(Fetch \/ ResultGet \/ ResultCount \/ ResultSave \/ ResultRespond) =>
          /\ answers' = answers
          /\ quizzes' = quizzes
          /\ questions' = questions
          /\ DOMAIN attempts' = DOMAIN attempts
          /\ \A a \in DOMAIN attempts :
                /\ attempts'[a].is_completed = attempts[a].is_completed
                /\ attempts'[a].completed_at = attempts[a].completed_at
                /\ attempts'[a].current_question_index = attempts[a].current_question_index
                /\ Uncounted(attempts'[a]) = Uncounted(attempts[a])]_vars

\* A result without details has been returned for an open attempt that
\* holds a correct answer.
C34_Witness ==
    /\ resp.op = "result"
    /\ resp.status = 200
    /\ resp.body.details = << >>
    /\ resp.body.correct = 1
    /\ ~resp.body.is_completed
    /\ ~attempts[resp.id].is_completed
    /\ \E r \in answers : r.attempt = resp.id /\ r.is_correct

\* The attempt rows as they are after attempt id has been created open for
\* (u, qz): the rows before, each as it was, and the new one.
CreatedOpen(u, qz, id) ==
    /\ id \notin DOMAIN attempts
    /\ DOMAIN attempts' = DOMAIN attempts \cup {id}
    /\ \A a \in DOMAIN attempts : attempts'[a] = attempts[a]
    /\ attempts'[id].user = u
    /\ attempts'[id].quiz = qz
    /\ ~attempts'[id].is_completed
    /\ attempts'[id].completed_at = Null
    /\ answers' = answers

\* C35: a forced start of a quiz of the caller always creates a new open
\* attempt (201) and leaves every stored attempt as it was, whatever open
\* attempts the pair has; a start that is not forced creates none when the
\* pair has an open attempt and returns the open one started last, never a
\* completed one, and creates one when the pair has no open attempt.
C35_ForcedStartAddsAnAttempt ==
    \A u \in Users, qz \in QuizIds :
        (qz \in quizzes /\ QuizOwner(qz) = u) =>
           /\ nextId <= MaxAttempts =>
                 /\ ENABLED StartAttempt(u, qz, TRUE)
                 /\ ~ENABLED (/\ StartAttempt(u, qz, TRUE)
                              /\ ~(/\ resp'.status = 201
                                   /\ CreatedOpen(u, qz, resp'.id)))
           /\ OpenOf(u, qz) # {} =>
                 /\ ENABLED StartAttempt(u, qz, FALSE)
                 /\ ~ENABLED (/\ StartAttempt(u, qz, FALSE)
                              /\ ~(/\ resp'.status = 200
                                   /\ attempts' = attempts
                                   /\ resp'.id \in OpenOf(u, qz)
                                   /\ ~attempts[resp'.id].is_completed
                                   /\ \A b \in OpenOf(u, qz) :
                                         attempts[b].started_at
                                            <= attempts[resp'.id].started_at))
           /\ OpenOf(u, qz) = {} =>
                 ~ENABLED (/\ StartAttempt(u, qz, FALSE)
                           /\ ~(/\ resp'.status = 201
                                /\ CreatedOpen(u, qz, resp'.id)))

\* Two open attempts of one pair coexist, the second made by a forced
\* start, and the last request, not forced, returned the second.
C35_Witness ==
    /\ resp.op = "start"
    /\ resp.status = 200
    /\ resp.id = 2
    /\ DOMAIN attempts = {1, 2}
    /\ attempts[1].user = attempts[2].user
    /\ attempts[1].quiz = attempts[2].quiz
    /\ ~attempts[1].is_completed
    /\ ~attempts[2].is_completed
    /\ attempts[1].started_at < attempts[2].started_at

\* C31: with the handlers run one at a time, every attempt has
\* 0 <= correct_count <= total_questions, and its score_percent, in tenths
\* of a percent, lies between 0 and 1000.
C31_CorrectCountWithinTotal ==
    \A a \in DOMAIN attempts :
        /\ 0 <= attempts[a].correct_count
        /\ attempts[a].correct_count <= attempts[a].total_questions
        /\ 0 <= score_percent(attempts[a].correct_count, attempts[a].total_questions)
        /\ score_percent(attempts[a].correct_count, attempts[a].total_questions) <= 1000

\* Beside an attempt with every question answered correctly there is one
\* with a wrong answer only.
C31_Witness ==
    \E a \in DOMAIN attempts, b \in DOMAIN attempts :
        /\ attempts[a].total_questions = 2
        /\ attempts[a].correct_count = 2
        /\ score_percent(attempts[a].correct_count, attempts[a].total_questions) = 1000
        /\ attempts[b].correct_count = 0
        /\ \E r \in answers : r.attempt = b

\* ------------------------------------------------------------- further claims of UrlSpec
\* C36: for a valid id, extract_youtube_video_id(canonical_youtube_url(id))
\* is id: resolving the canonical URL again, as download_youtube_audio does,
\* gives the id and the canonical URL create_quiz_for_user has computed.
C36_CanonicalUrlRoundTrips ==
    /\ \A id \in ValidIds :
          /\ canonical_youtube_url(id).ok
          /\ extract_youtube_video_id(canonical_youtube_url(id).value).ok
          /\ extract_youtube_video_id(canonical_youtube_url(id).value).value = id
    /\ ref.phase = "again" =>
          /\ ref.again.video_id.ok
          /\ ref.again.video_id.value = ref.video_id.value
          /\ ref.again.video_url.ok
          /\ ref.again.video_url.value = ref.video_url.value
          /\ ref.video_url.value =
                <<"https://", "www.", "youtube.com", "/", "watch", "?", "v", "=">>
                   \o ref.video_id.value

\* The canonical URL of a shorts/ reference to the id with the characters
\* - _ 9 Z has been resolved again.
C36_Witness ==
    /\ ref.phase = "again"
    /\ ref.url = <<"https://", "www.", "youtube.com", "/", "shorts", "/",
                   "-", "_", "9", "Z", "a", "b", "c", "d", "e", "f", "g">>
    /\ ref.again.video_id.value = <<"-", "_", "9", "Z", "a", "b", "c", "d", "e", "f", "g">>
====
